---- MODULE Spec2Model ----
(***************************************************************************)
(* A model of streamlib: the recursive path walker (src/src/walker.c), the *)
(* compression decorator (src/src/compression_stream.c), transparent       *)
(* decompression (src/src/stream.c), the archive reader and writer         *)
(* (src/src/archive_stream.c) and the generic entry points of stream.c.    *)
(*                                                                         *)
(* The module holds seven state machines that share no state:              *)
(*   Spec       the walker: walk_path over a small file system             *)
(*   SpecComp   a compression stream written, closed, read back, mapped    *)
(*   SpecAuto   content detection on a memory stream                       *)
(*   SpecArchW  an archive being written entry by entry                    *)
(*   SpecArchR  an archive opened, walked, its entries read, and closed    *)
(*   SpecApi    the generic stream_* entry points over each stream kind    *)
(*   SpecStr    stream_write_string and stream_read_string on a memory     *)
(*              stream                                                     *)
(* SpecClose runs the compression stream or the archive writer, the two    *)
(* decorators whose close can be repeated.                                 *)
(***************************************************************************)
EXTENDS Integers, Sequences, FiniteSets, TLC

(***************************************************************************)
(* errno values used by the code                                           *)
(***************************************************************************)
ENOENT == 2
EIO == 5
ENOMEM == 12
EACCES == 13
EINVAL == 22
ENOSYS == 38

Min(a, b) == IF a < b THEN a ELSE b

(***************************************************************************)
(*                              THE WALKER                                 *)
(***************************************************************************)

(* enum walk_flags *)
WALK_RECURSE_DIRS == "RECURSE_DIRS"
WALK_EXPAND_ARCHIVES == "EXPAND_ARCHIVES"
WALK_DECOMPRESS == "DECOMPRESS"
WALK_FOLLOW_SYMLINKS == "FOLLOW_SYMLINKS"
WALK_FILTER_FILES == "FILTER_FILES"
WALK_FILTER_DIRS == "FILTER_DIRS"

WalkFlags ==
    { WALK_RECURSE_DIRS, WALK_EXPAND_ARCHIVES, WALK_DECOMPRESS,
      WALK_FOLLOW_SYMLINKS, WALK_FILTER_FILES, WALK_FILTER_DIRS }

(***************************************************************************)
(* The file system the walks run on.                                       *)
(*   root/{a, sub/{b, sub2/{c}}, g, z, nr, dl, tz}                         *)
(*   vault/{ln -> file, lk -> directory {k}, ld/, v}                       *)
(* a b c v: plain files; g: a gzip-compressed file; z: a ZIP archive;      *)
(* tz: a gzip-compressed TAR archive, one of whose entries is a ZIP        *)
(* archive; nr: a file that cannot be opened (no read permission);         *)
(* dl: a dangling symbolic link (stat fails); ld: a directory that cannot  *)
(* be opened; ln: a symbolic link to a plain file; lk: a symbolic link to  *)
(* a directory that holds the plain file k; missing: no such path;         *)
(* bz: a ZIP archive cut short after its first entry.                      *)
(***************************************************************************)
Dirs == {"root", "sub", "sub2", "vault", "ld", "lk"}

Children(n) ==
    CASE n = "root" -> <<"a", "sub", "g", "z", "nr", "dl", "tz">>
      [] n = "sub" -> <<"b", "sub2">>
      [] n = "sub2" -> <<"c">>
      [] n = "vault" -> <<"ln", "lk", "ld", "v">>
      [] n = "lk" -> <<"k">>
      [] OTHER -> <<>>

Roots == {"root", "z", "vault", "missing", "tz", "bz"}

(* paths that lead nowhere: a missing path and a dangling symbolic link *)
NoSuchNode == {"missing", "dl"}

(* mutant of StatFails: stat(2) succeeds for every path *)
StatFailsNever(n) == FALSE

(* stat(2) fails with ENOENT for a path that leads nowhere *)
StatFails(n) == n \in NoSuchNode

(* the directory entries that are symbolic links *)
Symlinks == {"dl", "ln", "lk"}

(* stat(2) follows symbolic links, so st_mode is the target's mode *)
StatIsDir(n) == n \in Dirs
StatIsLnk(n) == FALSE

(* file_stream_open / opendir failing with EACCES *)
OpenFails(n) == n \in {"nr", "ld"}

(* what the first bytes of a file say it is *)
Content(n) ==
    CASE n = "g" -> "gz"
      [] n = "z" -> "zip"
      [] n = "tz" -> "tgz"
      [] n = "bz" -> "zip"
      [] OTHER -> "plain"

(* The entries of an archive, in container order:                          *)
(* [name, isDir, content]; content "empty" is a file entry of size 0.      *)
ArchEntries(n) ==
    CASE n = "z" -> << [name |-> "x", isDir |-> FALSE, content |-> "plain"],
                       [name |-> "d", isDir |-> TRUE, content |-> "none"],
                       [name |-> "y", isDir |-> FALSE, content |-> "gz"],
                       [name |-> "e", isDir |-> FALSE, content |-> "empty"] >>
      [] n = "tz" -> << [name |-> "t", isDir |-> FALSE, content |-> "plain"],
                        [name |-> "in", isDir |-> FALSE, content |-> "zip"] >>
      [] n = "bz" -> << [name |-> "p", isDir |-> FALSE, content |-> "plain"] >>
      [] OTHER -> <<>>

(* archives whose data ends in the middle: after the entries listed above  *)
(* archive_read_next_header fails with ARCHIVE_FATAL instead of reporting  *)
(* ARCHIVE_EOF                                                             *)
ArchTruncated(n) == n = "bz"

(* archive_read_next_header for the idx-th header of the archive n *)
NextHeader(n, idx) ==
    IF idx <= Len(ArchEntries(n)) THEN "ARCHIVE_OK"
    ELSE IF ArchTruncated(n) THEN "ARCHIVE_FATAL"
    ELSE "ARCHIVE_EOF"

(* The entries of an archive that is itself the entry e of the archive n:  *)
(* tz:in is a ZIP archive holding the file q.                              *)
InnerEntries(n, e) ==
    IF n = "tz" /\ e = "in"
    THEN << [name |-> "q", isDir |-> FALSE, content |-> "plain"] >>
    ELSE <<>>

(* Callback return values: continue, a positive stop code, -EIO, another   *)
(* negative stop code.                                                     *)
CbRets == {0, 1, -EIO, -ENOENT}

VARIABLES
    flags,      \* the walk's flags
    wroot,      \* the path given to walk_path
    haveArch,   \* HAVE_LIBARCHIVE
    haveComp,   \* HAVE_COMPRESSION
    codecOK,    \* whether init_codec succeeds during this walk
    stack,      \* call stack of walk_directory / walk_file / walk_archive
    rtab,       \* every resource opened so far
    calls,      \* every callback invocation so far
    rv,         \* value returned by the call that has just returned
    returning,  \* a call has returned and its caller has not looked yet
    wphase,     \* "idle" | "run" | "done"
    result,     \* what walk_path returned
    stopV,      \* first non-zero value a callback returned (0: none)
    lateCalls   \* callbacks invoked after a callback returned non-zero

wvars == << flags, wroot, haveArch, haveComp, codecOK, stack, rtab, calls,
            rv, returning, wphase, result, stopV, lateCalls >>

(***************************************************************************)
(* A write-mode stream compresses a payload into a memory stream and is    *)
(* closed; a read-mode stream of the same codec is opened on the produced  *)
(* bytes and is read, or mapped, and closed.                               *)
(*   cs       the compression stream                                       *)
(*   under    its underlying memory stream                                 *)
(*   cphase   "writing", "wclosed", "reading", "mapped", "rclosed", and    *)
(*            "damaged", "dclosed" for a stream read back damaged          *)
(*   wrote    the bytes passed to write so far                             *)
(*   got      the bytes returned by read so far                            *)
(*   gotEOF   a read has returned 0                                        *)
(*   nreads   number of read calls on the read-mode stream                 *)
(*   lastRet  what the last of them returned                               *)
(*   mapN     the length passed to stream_mmap (0: not mapped)             *)
(*   mapStart the start passed to stream_mmap                              *)
(*   closeRet what the last stream_close returned                          *)
(*   wfailed  a write to the underlying stream failed during close         *)
(*   closeN   stream_close calls made on the current stream, at most 2     *)
(*   maddr    emulated_mmap_addr, 0 for NULL                               *)
(*   mlog     the buffers malloc'ed by mmap, in order: addr, frees (how    *)
(*            many times free was called on the buffer)                    *)
(*   fed      the compressed input the codec has consumed, in order        *)
(*   gotErr   a read has returned -EIO                                      *)
(*   unmap    the last call if it was a munmap: op, addr (the argument),   *)
(*            before (emulated_mmap_addr before the call), ret             *)
(*   mapBuf   the buffer stream_mmap returned                              *)
(***************************************************************************)
VARIABLES cs, under, cphase, wrote, got, gotEOF, nreads, lastRet, mapN,
          mapStart, mapBuf, closeRet, wfailed, closeN, maddr, mlog, unmap,
          fed, gotErr

cvars == << cs, under, cphase, wrote, got, gotEOF, nreads, lastRet, mapN,
            mapStart, mapBuf, closeRet, wfailed,
                    closeN, maddr, mlog, unmap, fed, gotErr >>

(***************************************************************************)
(*                          CONTENT DETECTION                              *)
(*                                                                         *)
(* compression_stream_auto and stream_auto_decompress, at the level of the *)
(* bytes they read.  The source is a stream of bytes positioned at apos0;  *)
(* it is seekable (a memory or file stream) or not (a pipe, an archive     *)
(* entry).  build says which optional codecs are compiled in; zlib always  *)
(* is, the compression API being declared only with it.                    *)
(*   build    [bzip2, lzma, zstd]: STREAM_HAVE_BZIP2 / _LZMA / _ZSTD       *)
(*   asrc     the source stream: data, pos, seekable                       *)
(*   lead     the bytes of the source from its original position on        *)
(*   apos0    the position of the source before the call                   *)
(*   aphase   "off", "init", "done"                                        *)
(*   afun     the function called: "auto" or "decompress"                  *)
(*   aret     compression_stream_auto's return value                       *)
(*   aout     the stream stream_auto_decompress returned: "cs", "source"   *)
(*            or "replay"                                                  *)
(*   atype    type of the compression stream initialised, or "none"        *)
(*   replay   the bytes held by the replay wrapper                         *)
(*   rpos     buffer_pos of the replay wrapper                             *)
(*   adeliv   the bytes read so far from the stream that was returned      *)
(*   alast    what the last read of that stream returned (-1: no read yet) *)
(*   afail    a signature was recognised and the codec did not initialise  *)
(***************************************************************************)
VARIABLES build, asrc, lead, apos0, aphase, afun, aret, aout, atype, replay,
          rpos, adeliv, alast, afail

avars == << build, asrc, lead, apos0, aphase, afun, aret, aout, atype, replay,
            rpos, adeliv, alast, afail >>

(***************************************************************************)
(*                        ARCHIVE OPENED FOR WRITING                       *)
(*                                                                         *)
(* archive_stream_open_write, then any sequence of archive_stream_new_entry*)
(* / _write_data / _finish_entry and archive_stream_close.  libarchive     *)
(* collects what it is given in blocks and hands them to the write         *)
(* callback (stream_archive_write_data) when it chooses to; each of its    *)
(* calls can fail.                                                         *)
(*   ar       struct archive_stream: archive (handle not NULL), is_writing,*)
(*            entry_open, entry (not NULL), owns_underlying                *)
(*   lib      the libarchive write handle: buf, what it holds and has not  *)
(*            yet passed to the write callback; entry, a header has been   *)
(*            written and its entry not finished                           *)
(*   sink     the underlying stream: data written to it, number of closes, *)
(*            late = number of writes made to it after its close           *)
(*   wcall    the last call: op, ret and the state before it               *)
(*   wcalls   number of calls made so far                                  *)
(***************************************************************************)
VARIABLES ar, lib, sink, wcall, wcalls

awvars == << ar, lib, sink, wcall, wcalls >>

(***************************************************************************)
(* An archive opened for reading (archive_stream.c, walker.c).             *)
(*   rlib     libarchive's reader: open, pos (headers read), left (bytes   *)
(*            of the current entry not yet read), eof (it has reported the *)
(*            end of the entry's data), hdr (the last header result)       *)
(*   awalk    archive_stream_walk: pc, ret and the trace of its events     *)
(*   aes      walk_archive's struct archive_entry_stream: live, bytes_read,*)
(*            entry_size, delivered (bytes handed to the reader), reads    *)
(*   ecall    the last call on the per-entry stream: op, ret and the       *)
(*            state before it                                              *)
(*   ropen    struct archive_stream as archive_stream_open left it:        *)
(*            archive, underlying (not NULL), owns_underlying; ret (what   *)
(*            the open returned), uclosed (closes of the underlying        *)
(*            stream), nclose (archive_stream_close calls)                 *)
(***************************************************************************)
VARIABLES rlib, awalk, aes, ecall, ropen

arvars == << rlib, awalk, aes, ecall, ropen >>

(***************************************************************************)
(* The generic entry points of stream.c called on one stream, and          *)
(* compression_stream_init.                                                *)
(*   gbuild   the codecs compiled in                                       *)
(*   gs       struct stream and what hangs on it: kind (the concrete       *)
(*            type), phase ("off", "new", "ready", "failed"), error, pos,  *)
(*            c (the struct compression_stream of a compression stream)    *)
(*   gunder   the stream under a compression stream: data, pos and the     *)
(*            number of reads, writes, seeks and closes made on it         *)
(*   gcall    the last call: op, ret, null (a NULL pointer was returned),  *)
(*            crashed, missing (the type does not provide op), and the     *)
(*            state before it (s, u)                                       *)
(*   gcalls   number of calls made so far                                  *)
(***************************************************************************)
VARIABLES gbuild, gs, gunder, gcall, gcalls

gvars == << gbuild, gs, gunder, gcall, gcalls >>

(***************************************************************************)
(* stream_write_string on a memory stream, and stream_read_string on the   *)
(* bytes it left there.  Byte strings are kept run-length encoded: a       *)
(* sequence of runs [b, n], n > 0, neighbouring runs of different bytes.   *)
(*   sstr      the C string passed to stream_write_string                  *)
(*   smem      the memory stream: data, pos, capacity, can_grow            *)
(*   sphase    "off", "init", "written", "read"                            *)
(*   swret     what stream_write_string returned                           *)
(*   srret     what stream_read_string returned                            *)
(*   sbuf      the string stream_read_string left in buf                   *)
(*   sbufsize  the buf_size passed to stream_read_string                   *)
(***************************************************************************)
VARIABLES sstr, smem, sphase, swret, srret, sbuf, sbufsize

svars == << sstr, smem, sphase, swret, srret, sbuf, sbufsize >>

(* the variables each part of the model leaves alone *)
notWalker == << cvars, avars, awvars, arvars, gvars, svars >>
notComp == << wvars, avars, awvars, arvars, gvars, svars >>
notAuto == << wvars, cvars, awvars, arvars, gvars, svars >>
notArchW == << wvars, cvars, avars, arvars, gvars, svars >>
notArchR == << wvars, cvars, avars, awvars, gvars, svars >>
notApi == << wvars, cvars, avars, awvars, arvars, svars >>
notStr == << wvars, cvars, avars, awvars, arvars, gvars >>



(***************************************************************************)
(* Resources.  rtab is the sequence of every resource opened during the    *)
(* walk: [kind, under, owns, live, closes].                                *)
(*   kind    "file" | "dir" | "comp" | "replay" | "archive" | "entry"      *)
(*   under   index of the underlying stream (0: none)                      *)
(*   owns    owns_underlying                                               *)
(*   live    codec_state / archive handle is non-NULL                      *)
(*   closes  how many times the resource was closed or freed               *)
(***************************************************************************)
NewRes(k, u, o) ==
    [kind |-> k, under |-> u, owns |-> o, live |-> TRUE, closes |-> 0]

(* a replay wrapper that was allocated and freed again (stream.c:499) *)
FreedRes(k, u, o) ==
    [kind |-> k, under |-> u, owns |-> o, live |-> FALSE, closes |-> 1]

Released(r) == [r EXCEPT !.closes = @ + 1, !.live = FALSE]

(* compression_stream_close_impl, prefetch_close_internal: the underlying  *)
(* stream is closed iff the decorator owns it                              *)
ClosesUnder(r) == r.owns /\ r.under # 0

(* the walker passes owns_source = 1 for the file stream it opened *)
FileOwned == TRUE
(* ... and 0 for the archive's source and for a per-entry stream *)
ArchSrcOwned == FALSE
EntryOwned == FALSE

RECURSIVE Close(_, _)
(* stream_close(s) / archive_stream_close(ar) on resource i *)
Close(rt, i) ==
    LET r == rt[i] IN
    CASE r.kind \in {"file", "dir", "entry"} ->
            [rt EXCEPT ![i] = Released(r)]
      [] r.kind \in {"comp", "archive"} ->
            IF ~r.live THEN rt
            ELSE LET rt1 == [rt EXCEPT ![i] = Released(r)]
                 IN IF ClosesUnder(r) THEN Close(rt1, r.under) ELSE rt1
      [] r.kind = "replay" ->
            LET rt1 == IF ClosesUnder(r) THEN Close(rt, r.under) ELSE rt
            IN [rt1 EXCEPT ![i] = Released(rt1[i])]

(* mutant of CloseIf: the stream is left open *)
CloseIfNever(rt, i) == rt

(* if (s) stream_close(s) *)
CloseIf(rt, i) == IF i = 0 THEN rt ELSE Close(rt, i)

(* stream_can_seek: file streams can seek, per-entry streams cannot *)
CanSeek(k) == k = "file"

(* the magic bytes of the content name a codec *)
IsCompressed(c) == c \in {"gz", "tgz"}

(* what the source delivers once decompressed *)
Inner(c) == CASE c = "gz" -> "plain" [] c = "tgz" -> "tar" [] OTHER -> c

(***************************************************************************)
(* stream_auto_decompress(source, cs_storage, owns_source) on resources.   *)
(* Returns [rt, out, content]: the new table, the stream to use and what   *)
(* that stream delivers.                                                   *)
(***************************************************************************)
StreamAutoDecompress(rt, src, owns, c) ==
    LET n == Len(rt)
        seekable == CanSeek(rt[src].kind)
    IN
    IF seekable /\ IsCompressed(c) /\ codecOK
    THEN \* compression_stream_auto returned 0
         [rt |-> Append(rt, NewRes("comp", src, owns)), out |-> n + 1,
          content |-> Inner(c)]
    ELSE IF seekable /\ ~IsCompressed(c)
    THEN \* -EINVAL: not compressed, the source itself
         [rt |-> rt, out |-> src, content |-> c]
    ELSE \* buffered detection
         IF c = "empty"
         THEN [rt |-> rt, out |-> src, content |-> c]
         ELSE IF IsCompressed(c)
         THEN IF codecOK
              THEN [rt |-> rt \o << NewRes("replay", src, owns),
                                    NewRes("comp", n + 1, TRUE) >>,
                    out |-> n + 2, content |-> Inner(c)]
              ELSE [rt |-> Append(rt, FreedRes("replay", src, owns)),
                    out |-> src, content |-> c]
         ELSE [rt |-> Append(rt, NewRes("replay", src, owns)),
               out |-> n + 1, content |-> c]

(* archive_stream_open succeeds iff libarchive recognises a container;     *)
(* libarchive undoes a gzip layer by itself.                               *)
ArchiveOpens(c) == c \in {"zip", "tar", "tgz"}

(***************************************************************************)
(* Call frames: [fn, node, depth, pc, idx, r1, r2, r3, es, isDir].         *)
(*   walk_directory  r1 = the DIR handle, idx = next child                 *)
(*   walk_file       r1 = fs, r2 = archive_fs, es = entry.stream           *)
(*   walk_archive    r1 = stream, r2 = original_stream, r3 = ar,           *)
(*                   idx = next entry, es = entry.stream                   *)
(***************************************************************************)
Frame(f, n, d) ==
    [fn |-> f, node |-> n, depth |-> d, pc |-> "enter", idx |-> 1,
     r1 |-> 0, r2 |-> 0, r3 |-> 0, es |-> 0, isDir |-> FALSE]

Top == stack[Len(stack)]
Below == SubSeq(stack, 1, Len(stack) - 1)
Running(f, p) ==
    /\ wphase = "run"
    /\ stack # <<>>
    /\ Top.fn = f
    /\ Top.pc = p

(* mutant: the depth is passed on unchanged *)
ChildDepthSame(d) == d

(* depth + 1 at walker.c:283, 291, 192 *)
ChildDepth(d) == d + 1

(* the walker_entry handed to the callback *)
Entry(path, d, dir, arch, st, rt) ==
    [path |-> path, depth |-> d, isDir |-> dir, isArch |-> arch,
     stream |-> st,
     open |-> IF st = 0 THEN FALSE ELSE rt[st].closes = 0]

(* return v to the caller, leaving the resources as rt *)
Return(v, rt) ==
    /\ stack' = Below
    /\ rv' = v
    /\ returning' = TRUE
    /\ rtab' = rt

(* ret = callback(&entry, userdata) is entered *)
Invoke(e) ==
    /\ calls' = Append(calls, e)
    /\ lateCalls' = IF stopV # 0 THEN lateCalls + 1 ELSE lateCalls

(* the callback returns r *)
Returned(r) ==
    stopV' = IF stopV = 0 THEN r ELSE stopV

WInit ==
    /\ flags \in SUBSET WalkFlags
    /\ wroot \in Roots
    /\ haveArch \in BOOLEAN
    /\ haveComp \in BOOLEAN
    /\ codecOK \in BOOLEAN
    /\ stack = <<>>
    /\ rtab = <<>>
    /\ calls = <<>>
    /\ rv = 0
    /\ returning = FALSE
    /\ wphase = "idle"
    /\ result = 0
    /\ stopV = 0
    /\ lateCalls = 0

(* no walk is made *)
WIdle ==
    /\ flags = {}
    /\ wroot = "root"
    /\ haveArch = TRUE
    /\ haveComp = TRUE
    /\ codecOK = TRUE
    /\ stack = <<>>
    /\ rtab = <<>>
    /\ calls = <<>>
    /\ rv = 0
    /\ returning = FALSE
    /\ wphase = "off"
    /\ result = 0
    /\ stopV = 0
    /\ lateCalls = 0

(* walk_path: feature checks, stat, dispatch *)
UnsupportedNever(f, ha, hc) == FALSE

(* walk_path's feature test: a flag whose library is not compiled in *)
Unsupported(f, ha, hc) ==
    \/ WALK_EXPAND_ARCHIVES \in f /\ ~ha
    \/ WALK_DECOMPRESS \in f /\ ~hc

WalkPathRet ==
    IF Unsupported(flags, haveArch, haveComp) THEN -ENOSYS
    ELSE IF StatFails(wroot) THEN -ENOENT
    ELSE 0

WalkPath ==
    /\ wphase = "idle"
    /\ IF WalkPathRet # 0
       THEN /\ wphase' = "done"
            /\ result' = WalkPathRet
            /\ UNCHANGED stack
       ELSE /\ wphase' = "run"
            /\ stack' = << Frame(IF StatIsDir(wroot) THEN "dir" ELSE "file",
                                 wroot, 0) >>
            /\ UNCHANGED result
    /\ UNCHANGED << flags, wroot, haveArch, haveComp, codecOK, rtab, calls,
                    rv, returning, stopV, lateCalls >>

(* walk_directory / walk_file returned to walk_path *)
WalkPathReturn ==
    /\ wphase = "run"
    /\ stack = <<>>
    /\ returning
    /\ wphase' = "done"
    /\ result' = rv
    /\ returning' = FALSE
    /\ UNCHANGED << flags, wroot, haveArch, haveComp, codecOK, stack, rtab,
                    calls, rv, stopV, lateCalls >>

(* walk_directory after the callback: stop unless recursing *)
DirProceed(f, rt) ==
    IF WALK_RECURSE_DIRS \notin flags
    THEN Return(0, Close(rt, f.r1))
    ELSE /\ stack' = Append(Below, [f EXCEPT !.pc = "iter"])
         /\ rtab' = rt
         /\ UNCHANGED << rv, returning >>

(* walk_directory: opendir, stat, the directory's own callback *)
DirEnter ==
    /\ Running("dir", "enter")
    /\ LET f == Top
           rt == Append(rtab, NewRes("dir", 0, FALSE))
           g == [f EXCEPT !.r1 = Len(rt), !.isDir = TRUE]
       IN IF OpenFails(f.node)
          THEN /\ Return(-EACCES, rtab)
               /\ UNCHANGED << calls, lateCalls >>
          ELSE IF StatFails(f.node)
          THEN /\ Return(-ENOENT, Close(rt, g.r1))
               /\ UNCHANGED << calls, lateCalls >>
          ELSE IF WALK_FILTER_FILES \notin flags
          THEN /\ Invoke(Entry(f.node, f.depth, TRUE, FALSE, 0, rt))
               /\ stack' = Append(Below, [g EXCEPT !.pc = "cb"])
               /\ rtab' = rt
               /\ UNCHANGED << rv, returning >>
          ELSE /\ DirProceed(g, rt)
               /\ UNCHANGED << calls, lateCalls >>
    /\ UNCHANGED << flags, wroot, haveArch, haveComp, codecOK, wphase,
                    result, stopV >>

(* walk_directory: the directory's callback returned r *)
DirCallbackReturn ==
    /\ Running("dir", "cb")
    /\ \E r \in CbRets :
         /\ Returned(r)
         /\ IF r # 0
            THEN Return(r, Close(rtab, Top.r1))
            ELSE DirProceed(Top, rtab)
    /\ UNCHANGED << flags, wroot, haveArch, haveComp, codecOK, calls, wphase,
                    result, lateCalls >>

(* walk_directory: one turn of the readdir loop *)
DirIter ==
    /\ Running("dir", "iter")
    /\ LET f == Top
           ch == Children(f.node)
       IN IF f.idx > Len(ch)
          THEN Return(0, Close(rtab, f.r1))
          ELSE LET c == ch[f.idx] IN
               IF StatFails(c)
                  \/ (StatIsLnk(c) /\ WALK_FOLLOW_SYMLINKS \notin flags)
               THEN /\ stack' = Append(Below, [f EXCEPT !.idx = @ + 1])
                    /\ UNCHANGED << rtab, rv, returning >>
               ELSE /\ stack' = Below \o
                          << [f EXCEPT !.pc = "wait"],
                             Frame(IF StatIsDir(c) THEN "dir" ELSE "file",
                                   c, ChildDepth(f.depth)) >>
                    /\ UNCHANGED << rtab, rv, returning >>
    /\ UNCHANGED << flags, wroot, haveArch, haveComp, codecOK, calls, wphase,
                    result, stopV, lateCalls >>

(* walk_directory: the recursive call for a child returned *)
DirChildReturn ==
    /\ Running("dir", "wait")
    /\ returning
    /\ IF rv # 0
       THEN Return(rv, Close(rtab, Top.r1))
       ELSE /\ stack' = Append(Below, [Top EXCEPT !.pc = "iter", !.idx = @ + 1])
            /\ returning' = FALSE
            /\ UNCHANGED << rtab, rv >>
    /\ UNCHANGED << flags, wroot, haveArch, haveComp, codecOK, calls, wphase,
                    result, stopV, lateCalls >>

(* walker.c:141-144: the filters of walk_file, applied before any open *)
FileFiltered(dir) ==
    \/ (WALK_FILTER_FILES \in flags /\ dir)
    \/ (WALK_FILTER_DIRS \in flags /\ ~dir)

(* walker.c:153-168: open the stream of a regular file.                    *)
(* Returns [rt, fs, es]: es = 0 is entry.stream == NULL.                   *)
FileOpen(rt, n) ==
    IF OpenFails(n)
    THEN [rt |-> rt, fs |-> 0, es |-> 0]
    ELSE LET rt1 == Append(rt, NewRes("file", 0, FALSE))
             fs == Len(rt1)
         IN IF haveComp /\ WALK_DECOMPRESS \in flags
            THEN LET sad == StreamAutoDecompress(rt1, fs, FileOwned, Content(n))
                 IN [rt |-> sad.rt, fs |-> fs, es |-> sad.out]
            ELSE [rt |-> rt1, fs |-> fs, es |-> fs]

(* walk_file: stat, filters, open, the file's callback *)
FileEnter ==
    /\ Running("file", "enter")
    /\ LET f == Top
           dir == StatIsDir(f.node)
           o == FileOpen(rtab, f.node)
       IN IF StatFails(f.node)
          THEN /\ Return(-ENOENT, rtab)
               /\ UNCHANGED << calls, lateCalls >>
          ELSE IF FileFiltered(dir)
          THEN /\ Return(0, rtab)
               /\ UNCHANGED << calls, lateCalls >>
          ELSE /\ Invoke(Entry(f.node, f.depth, dir, FALSE, o.es, o.rt))
               /\ stack' = Append(Below, [f EXCEPT !.pc = "cb", !.r1 = o.fs,
                                                   !.es = o.es, !.isDir = dir])
               /\ rtab' = o.rt
               /\ UNCHANGED << rv, returning >>
    /\ UNCHANGED << flags, wroot, haveArch, haveComp, codecOK, wphase,
                    result, stopV >>

(* walk_file: the callback returned r; close the stream; try the archive *)
FileCallbackReturn ==
    /\ Running("file", "cb")
    /\ \E r \in CbRets :
         /\ Returned(r)
         /\ LET f == Top
                rt == CloseIf(rtab, f.es)
                rt1 == Append(rt, NewRes("file", 0, FALSE))
            IN IF r # 0
               THEN Return(r, rt)
               ELSE IF haveArch /\ WALK_EXPAND_ARCHIVES \in flags /\ ~f.isDir
               THEN IF OpenFails(f.node)
                    THEN Return(0, rt)
                    ELSE /\ stack' = Below \o
                               << [f EXCEPT !.pc = "wait", !.r2 = Len(rt1)],
                                  [Frame("arch", f.node, ChildDepth(f.depth))
                                      EXCEPT !.r1 = Len(rt1), !.r2 = Len(rt1)] >>
                         /\ rtab' = rt1
                         /\ UNCHANGED << rv, returning >>
               ELSE Return(0, rt)
    /\ UNCHANGED << flags, wroot, haveArch, haveComp, codecOK, calls, wphase,
                    result, lateCalls >>

(* mutant of FileRet: every result of walk_archive is passed on *)
FileRetAll(v) == v

(* walker.c:195-202: what walk_file returns after walk_archive returned v *)
FileRet(v) == IF v < 0 /\ v # -EIO THEN v ELSE 0

(* walk_file: walk_archive returned *)
FileArchiveReturn ==
    /\ Running("file", "wait")
    /\ returning
    /\ Return(FileRet(rv), Close(rtab, Top.r2))
    /\ UNCHANGED << flags, wroot, haveArch, haveComp, codecOK, calls, wphase,
                    result, stopV, lateCalls >>

(* walker.c:374, 440, 459: close the compression stream if one was made *)
CloseCreated(rt, f) ==
    IF haveComp /\ WALK_DECOMPRESS \in flags /\ f.r1 # f.r2
    THEN Close(rt, f.r1)
    ELSE rt

(* walk_archive: optional decompression, archive_stream_open *)
ArchEnter ==
    /\ Running("arch", "enter")
    /\ LET f == Top
           dec == haveComp /\ WALK_DECOMPRESS \in flags
           sad == IF dec
                  THEN StreamAutoDecompress(rtab, f.r1, ArchSrcOwned,
                                            Content(f.node))
                  ELSE [rt |-> rtab, out |-> f.r1, content |-> Content(f.node)]
           g == [f EXCEPT !.r1 = sad.out]
           rt1 == Append(sad.rt, NewRes("archive", sad.out, FALSE))
       IN IF ~ArchiveOpens(sad.content)
          THEN Return(-EIO, CloseCreated(sad.rt, g))
          ELSE /\ stack' = Append(Below, [g EXCEPT !.pc = "next",
                                                   !.r3 = Len(rt1)])
               /\ rtab' = rt1
               /\ UNCHANGED << rv, returning >>
    /\ UNCHANGED << flags, wroot, haveArch, haveComp, codecOK, calls, wphase,
                    result, stopV, lateCalls >>

(* walker.c:425-428: the filters of walk_archive *)
ArchFiltered(dir) ==
    \/ (WALK_FILTER_FILES \in flags /\ dir)
    \/ (WALK_FILTER_DIRS \in flags /\ ~dir)

(* walker.c:409-422: the stream of an archive entry. Returns [rt, es]. *)
EntryOpen(rt, e) ==
    IF e.isDir
    THEN [rt |-> rt, es |-> 0]
    ELSE LET rt1 == Append(rt, NewRes("entry", 0, FALSE))
             id == Len(rt1)
         IN IF haveComp /\ WALK_DECOMPRESS \in flags
            THEN LET sad == StreamAutoDecompress(rt1, id, EntryOwned, e.content)
                 IN [rt |-> sad.rt, es |-> sad.out]
            ELSE [rt |-> rt1, es |-> id]

(* mutant of EntryPath: the entry's pathname before the archive's path *)
EntryPathSwapped(base, pathname) == << pathname, base >>

(* walker.c:388-390: snprintf(full_path, "%s:%s", base_path, pathname) *)
EntryPath(base, pathname) == << base, pathname >>

(* walk_archive: archive_read_next_header and the entry's callback *)
ArchNext ==
    /\ Running("arch", "next")
    /\ LET f == Top
           es == ArchEntries(f.node)
       IN IF NextHeader(f.node, f.idx) # "ARCHIVE_OK"
          THEN /\ Return(0, CloseCreated(Close(rtab, f.r3), f))
               /\ UNCHANGED << calls, lateCalls >>
          ELSE LET e == es[f.idx]
                   o == EntryOpen(rtab, e)
               IN IF ArchFiltered(e.isDir)
                  THEN /\ stack' = Append(Below, [f EXCEPT !.idx = @ + 1])
                       /\ rtab' = CloseIf(o.rt, o.es)
                       /\ UNCHANGED << rv, returning, calls, lateCalls >>
                  ELSE /\ Invoke(Entry(EntryPath(f.node, e.name), f.depth, e.isDir,
                                       TRUE, o.es, o.rt))
                       /\ stack' = Append(Below, [f EXCEPT !.pc = "cb",
                                                           !.es = o.es,
                                                           !.isDir = e.isDir])
                       /\ rtab' = o.rt
                       /\ UNCHANGED << rv, returning >>
    /\ UNCHANGED << flags, wroot, haveArch, haveComp, codecOK, wphase,
                    result, stopV >>

(* walk_archive: the entry's callback returned r *)
ArchCallbackReturn ==
    /\ Running("arch", "cb")
    /\ \E r \in CbRets :
         /\ Returned(r)
         /\ LET f == Top
                rt == CloseIf(rtab, f.es)
            IN IF r # 0
               THEN Return(r, CloseCreated(Close(rt, f.r3), f))
               ELSE /\ stack' = Append(Below, [f EXCEPT !.pc = "next",
                                                        !.idx = @ + 1,
                                                        !.es = 0])
                    /\ rtab' = rt
                    /\ UNCHANGED << rv, returning >>
    /\ UNCHANGED << flags, wroot, haveArch, haveComp, codecOK, calls, wphase,
                    result, lateCalls >>

WNext ==
    \/ WalkPath /\ UNCHANGED notWalker
    \/ WalkPathReturn /\ UNCHANGED notWalker
    \/ DirEnter /\ UNCHANGED notWalker
    \/ DirCallbackReturn /\ UNCHANGED notWalker
    \/ DirIter /\ UNCHANGED notWalker
    \/ DirChildReturn /\ UNCHANGED notWalker
    \/ FileEnter /\ UNCHANGED notWalker
    \/ FileCallbackReturn /\ UNCHANGED notWalker
    \/ FileArchiveReturn /\ UNCHANGED notWalker
    \/ ArchEnter /\ UNCHANGED notWalker
    \/ ArchNext /\ UNCHANGED notWalker
    \/ ArchCallbackReturn /\ UNCHANGED notWalker

(* the walk has returned *)
WalkDone == wphase = "done"

(***************************************************************************)
(*                         CLAIMS ABOUT THE WALKER                         *)
(***************************************************************************)

(* C1: when walk_path has returned, every resource the walker opened       *)
(* during the call (file stream, directory handle, compression decorator,  *)
(* replay wrapper, archive decorator, per-entry stream) has been closed    *)
(* exactly once: none is left open and none is closed twice.               *)
C1_AllClosedExactlyOnce ==
    WalkDone => \A i \in DOMAIN rtab : rtab[i].closes = 1

(* C3: if a callback returns a non-zero value v at any visited node, then  *)
(* walk_path returns exactly v and the callback is not invoked again.      *)
C3_StopPropagates ==
    /\ lateCalls = 0
    /\ (WalkDone /\ stopV # 0) => result = stopV

(* C9: whenever the callback is invoked, the entry's stream is NULL        *)
(* exactly when the entry is a directory, and the stream of a              *)
(* non-directory entry is open.                                            *)
C9_StreamIffNotDir ==
    \A i \in DOMAIN calls :
        /\ (calls[i].stream = 0) <=> calls[i].isDir
        /\ ~calls[i].isDir => calls[i].open

(* the nodes stat(2) reports at or below n *)
RECURSIVE Subtree(_)
Subtree(n) ==
    {n} \cup UNION { Subtree(Children(n)[i]) :
                       i \in { j \in DOMAIN Children(n) :
                                 ~StatFails(Children(n)[j]) } }

ParentOf(n) == CHOOSE p \in Dirs : \E i \in DOMAIN Children(p) : Children(p)[i] = n

(* nesting level of n below the root r *)
RECURSIVE Level(_, _)
Level(n, r) == IF n = r THEN 0 ELSE 1 + Level(ParentOf(n), r)

(* the callbacks for file system nodes (not archive entries) *)
FsCalls == SelectSeq(calls, LAMBDA e : ~e.isArch)

NoFilter == flags \cap {WALK_FILTER_FILES, WALK_FILTER_DIRS} = {}

(* C10: a walk of a directory with WALK_RECURSE_DIRS and no filter, in     *)
(* which every callback returned 0 and which returned 0, invoked the       *)
(* callback exactly once for every directory and file below the root, with *)
(* depth equal to the nesting level, each directory before all its         *)
(* descendants; without WALK_RECURSE_DIRS the callback was invoked exactly *)
(* once, for the root itself.                                              *)
C10_TreeWalk ==
    (WalkDone /\ StatIsDir(wroot) /\ NoFilter /\ result = stopV) =>
        LET fc == FsCalls IN
        IF WALK_RECURSE_DIRS \in flags
        THEN stopV = 0 =>
             /\ \A n \in Subtree(wroot) :
                    Cardinality({ i \in DOMAIN fc : fc[i].path = n }) = 1
             /\ \A i \in DOMAIN fc :
                    /\ fc[i].path \in Subtree(wroot)
                    /\ fc[i].depth = Level(fc[i].path, wroot)
                    /\ fc[i].isDir = StatIsDir(fc[i].path)
             /\ \A i, j \in DOMAIN fc :
                    (i # j /\ fc[i].isDir /\ fc[j].path \in Subtree(fc[i].path))
                        => i < j
        ELSE /\ Len(calls) = 1
             /\ calls[1].path = wroot
             /\ calls[1].depth = 0
             /\ calls[1].isDir

(* a recursive walk of root/ that visited c at depth 3 and returned 0 *)
C10_Witness ==
    /\ WalkDone
    /\ wroot = "root"
    /\ WALK_RECURSE_DIRS \in flags
    /\ NoFilter
    /\ result = 0
    /\ stopV = 0
    /\ Len(FsCalls) = 10
    /\ \E i \in DOMAIN calls : calls[i].path = "c" /\ calls[i].depth = 3

(* what identifies a callback's entry: the path of a file system node, or  *)
(* the archive's path and the entry's pathname                             *)
VisitKey(e) == IF e.isArch THEN e.path ELSE << e.path >>

(* the file system nodes a complete walk reaches *)
ReachedNodes ==
    IF StatIsDir(wroot) /\ WALK_RECURSE_DIRS \in flags
    THEN Subtree(wroot) ELSE {wroot}

(* the archives a complete walk without filters expands *)
ExpandedArchives ==
    IF haveArch /\ WALK_EXPAND_ARCHIVES \in flags
    THEN { n \in ReachedNodes :
             ~StatIsDir(n) /\ ~OpenFails(n) /\ ArchiveOpens(Content(n)) }
    ELSE {}

(* what a complete walk with the same flags and no filter visits:          *)
(* [key, isDir] for every file system node and every archive entry         *)
UnfilteredVisits ==
    { [key |-> << n >>, isDir |-> StatIsDir(n)] : n \in ReachedNodes }
    \cup UNION { { [key |-> << n, ArchEntries(n)[i].name >>,
                    isDir |-> ArchEntries(n)[i].isDir] :
                      i \in DOMAIN ArchEntries(n) } : n \in ExpandedArchives }

(* number of callbacks for the entry with key k *)
Visits(k) == Cardinality({ i \in DOMAIN calls : VisitKey(calls[i]) = k })

(* the walk returned 0 and every callback returned 0 *)
CompleteWalk == WalkDone /\ result = 0 /\ stopV = 0 /\ WalkPathRet = 0

(* C11: in a complete walk with WALK_FILTER_FILES (alone) no callback is   *)
(* for a directory and there is exactly one callback for every file the    *)
(* walk without the filter visits; with WALK_FILTER_DIRS (alone) no        *)
(* callback is for a non-directory and there is exactly one callback for   *)
(* every directory the walk without the filter visits.                     *)
C11_FiltersSelect ==
    CompleteWalk =>
      /\ WALK_FILTER_FILES \in flags => \A i \in DOMAIN calls : ~calls[i].isDir
      /\ WALK_FILTER_DIRS \in flags => \A i \in DOMAIN calls : calls[i].isDir
      /\ (WALK_FILTER_FILES \in flags /\ WALK_FILTER_DIRS \notin flags) =>
            \A v \in UnfilteredVisits : ~v.isDir => Visits(v.key) = 1
      /\ (WALK_FILTER_DIRS \in flags /\ WALK_FILTER_FILES \notin flags) =>
            \A v \in UnfilteredVisits : v.isDir => Visits(v.key) = 1

C13_NestedArchives ==
    (CompleteWalk /\ NoFilter) =>
        \A i \in DOMAIN calls :
           calls[i].isArch =>
              LET inner == InnerEntries(calls[i].path[1], calls[i].path[2])
              IN  \A k \in DOMAIN inner :
                     \E j \in (i + 1)..Len(calls) :
                        /\ calls[j].isArch
                        /\ calls[j].depth = calls[i].depth + 1
                        /\ calls[j].path[Len(calls[j].path)] = inner[k].name

(* C21: when a flag asks for a feature that is not compiled in             *)
(* (WALK_EXPAND_ARCHIVES without archive support, WALK_DECOMPRESS without  *)
(* compression support), walk_path returns -ENOSYS whatever the path,      *)
(* having invoked no callback and opened nothing.                          *)
C21_UnsupportedFlag ==
    (WalkDone /\ ( (WALK_EXPAND_ARCHIVES \in flags /\ ~haveArch)
                  \/ (WALK_DECOMPRESS \in flags /\ ~haveComp) )) =>
        /\ result = -ENOSYS
        /\ calls = <<>>
        /\ rtab = <<>>

C21_Witness ==
    /\ WalkDone
    /\ wroot = "missing"
    /\ WALK_EXPAND_ARCHIVES \in flags
    /\ ~haveArch
    /\ result = -ENOSYS
    /\ calls = <<>>

(* C22: without WALK_FOLLOW_SYMLINKS no callback is invoked for a         *)
(* directory child that is a symbolic link, or for anything reached        *)
(* through one; with the flag such a child is visited like the node it     *)
(* points to.                                                              *)
C22_SymlinksSkipped ==
    \A i \in DOMAIN calls :
        ~calls[i].isArch =>
            /\ WALK_FOLLOW_SYMLINKS \notin flags =>
                  \A l \in Symlinks \ {wroot} :
                     ~StatFails(l) => calls[i].path \notin Subtree(l)
            /\ (WALK_FOLLOW_SYMLINKS \in flags /\ calls[i].path \in Symlinks) =>
                  calls[i].isDir = StatIsDir(calls[i].path)

(* the files a completed walk from wroot came to and could open *)
FilesReached ==
    IF ~StatIsDir(wroot) THEN {wroot} \ { n \in {wroot} : OpenFails(n) }
    ELSE IF WALK_RECURSE_DIRS \in flags
         THEN { n \in Subtree(wroot) : ~StatIsDir(n) /\ ~OpenFails(n) }
         ELSE {}

(* C23: filters are applied after the node's stream was constructed: in a  *)
(* walk with WALK_FILTER_DIRS that ran to its end, no callback was invoked *)
(* for a non-directory node, and a stream was opened and then closed for   *)
(* every file the walk came to.                                            *)
C23_FilteredStreamOpenedThenClosed ==
    (WalkDone /\ WalkPathRet = 0 /\ result = 0 /\ WALK_FILTER_DIRS \in flags) =>
        /\ \A i \in DOMAIN calls : calls[i].isDir
        /\ Cardinality({ i \in DOMAIN rtab :
                            rtab[i].kind = "file" /\ rtab[i].closes = 1 })
               >= Cardinality(FilesReached)

(* walk_file is about to look at the result of walk_archive for a file    *)
(* that archive_stream_open rejected                                       *)
NotAnArchiveReturned ==
    /\ Running("file", "wait")
    /\ returning
    /\ ~ArchiveOpens(Content(Top.node))
    /\ ~ArchiveOpens(Inner(Content(Top.node)))

(* C25: with WALK_EXPAND_ARCHIVES, when a visited regular file cannot be   *)
(* opened as an archive, walk_file reports no error (returns 0, so the     *)
(* walk goes on), every stream opened for the attempt is closed, and no    *)
(* callback is invoked for an entry of that file.                          *)
C25_NotAnArchiveIsSkipped ==
    /\ [](\A i \in DOMAIN calls :
            calls[i].isArch =>
               \/ ArchiveOpens(Content(calls[i].path[1]))
               \/ ArchiveOpens(Inner(Content(calls[i].path[1]))))
    /\ [][NotAnArchiveReturned =>
            /\ returning'
            /\ rv' = 0
            /\ calls' = calls
            /\ \A i \in DOMAIN rtab' :
                  i >= Top.r2 => rtab'[i].closes = 1]_wvars

(* a recursive walk of root/ that expanded archives went past the plain    *)
(* file a, which is no archive, and reached c                              *)
C25_Witness ==
    /\ WalkDone
    /\ wroot = "root"
    /\ haveArch
    /\ WALK_EXPAND_ARCHIVES \in flags
    /\ WALK_DECOMPRESS \in flags
    /\ result = 0
    /\ \E i, j \in DOMAIN calls :
          /\ i < j
          /\ calls[i].path = "a"
          /\ calls[j].path = "c"
    /\ \E i \in DOMAIN rtab : rtab[i].kind = "file" /\ rtab[i].closes = 1

(* C26: when an archive was opened and reading a later entry header      *)
(* fails for a reason other than the end of the archive, the walk is       *)
(* aborted and walk_path returns a negative error code, not 0.             *)
C26_HeaderFailureAborts ==
    (/\ WalkDone
     /\ \E i \in DOMAIN rtab : rtab[i].kind = "archive"
     /\ ArchTruncated(wroot)
     /\ stopV = 0) => result < 0

(* the readdir loop of walk_directory is at a child that leads nowhere *)
AtDeadChild ==
    /\ Running("dir", "iter")
    /\ Top.idx <= Len(Children(Top.node))
    /\ Children(Top.node)[Top.idx] \in NoSuchNode

(* C27: when stat fails for the root path, walk_path returns the negated   *)
(* error code of the operating system and never invokes the callback; when *)
(* stat fails for a child while a directory is listed, the child is        *)
(* skipped without a callback and the walk goes on with the next child,    *)
(* its return value unchanged.                                             *)
C27_StatFailures ==
    /\ []((WalkDone /\ ~Unsupported(flags, haveArch, haveComp)
                    /\ wroot \in NoSuchNode) =>
              (result = -ENOENT /\ calls = <<>> /\ rtab = <<>>))
    /\ [](\A i \in DOMAIN calls :
              ~calls[i].isArch => calls[i].path \notin NoSuchNode)
    /\ [][AtDeadChild =>
             /\ stack' = Append(Below, [Top EXCEPT !.idx = @ + 1])
             /\ calls' = calls
             /\ rtab' = rtab
             /\ rv' = rv
             /\ returning' = returning
             /\ wphase' = wphase
             /\ result' = result]_wvars

(* a recursive walk of root/ that went past the dangling link dl, visited  *)
(* the child after it and returned 0                                       *)
C27_Witness ==
    /\ WalkDone
    /\ wroot = "root"
    /\ result = 0
    /\ \E i \in DOMAIN calls : calls[i].path = "nr"
    /\ \E i \in DOMAIN calls : calls[i].path = "tz"
    /\ \A i \in DOMAIN calls : calls[i].path # "dl"

(* the callback invoked last has not returned yet *)
InCallback == wphase = "run" /\ stack # <<>> /\ Top.pc = "cb"

(* the streams handed to callbacks that are open *)
HandedOpen ==
    { calls[i].stream : i \in { j \in DOMAIN calls :
                                  /\ calls[j].stream # 0
                                  /\ rtab[calls[j].stream].closes = 0 } }

(* C28: the stream handed to a callback was open when the callback was     *)
(* invoked and stays open until it returns; once the callback has returned *)
(* the walker has closed it, before any other callback is invoked; at most *)
(* one stream handed to a callback is open at any time.                    *)
C28_StreamOpenDuringCallbackOnly ==
    /\ \A i \in DOMAIN calls :
          calls[i].stream # 0 =>
             /\ calls[i].open
             /\ IF i = Len(calls) /\ InCallback
                THEN rtab[calls[i].stream].closes = 0
                ELSE rtab[calls[i].stream].closes >= 1
    /\ Cardinality(HandedOpen) <= 1

(* inside the callback for the third entry of the archive z: its stream is *)
(* open, the streams of z and of its first entry have been closed          *)
C28_Witness ==
    /\ InCallback
    /\ Len(calls) >= 3
    /\ calls[Len(calls)].isArch
    /\ calls[Len(calls)].stream # 0
    /\ Cardinality(HandedOpen) = 1
    /\ Cardinality({ i \in DOMAIN calls : calls[i].stream # 0 }) >= 3
    /\ WALK_DECOMPRESS \in flags
    /\ haveComp

(* C38: with WALK_EXPAND_ARCHIVES and WALK_FILTER_DIRS a walk that ran to  *)
(* its end over an archive file has invoked no callback for the file       *)
(* itself and one callback for every directory entry the archive holds.    *)
C38_FilteredArchiveStillExpanded ==
    (/\ CompleteWalk
     /\ haveArch
     /\ WALK_EXPAND_ARCHIVES \in flags
     /\ WALK_FILTER_DIRS \in flags
     /\ WALK_FILTER_FILES \notin flags
     /\ ~StatIsDir(wroot)
     /\ ArchiveOpens(Content(wroot))) =>
        /\ \A i \in DOMAIN calls : calls[i].path # wroot
        /\ \A k \in DOMAIN ArchEntries(wroot) :
              ArchEntries(wroot)[k].isDir =>
                 \E i \in DOMAIN calls :
                    /\ calls[i].isArch
                    /\ calls[i].isDir
                    /\ calls[i].path = EntryPath(wroot, ArchEntries(wroot)[k].name)

(***************************************************************************)
(*                       COMPRESSION STREAM DECORATOR                      *)
(*                                                                         *)
(* compression_stream.c drives four codec libraries through the same two   *)
(* 16384-byte buffers.  The libraries are modelled by one run-length codec *)
(* with the streaming interface the code relies on: the compressor takes   *)
(* input and hands out at most avail_out symbols per call, keeps the rest  *)
(* pending, and emits its trailer on finish; the decompressor consumes     *)
(* symbols, produces at most avail_out bytes per call and reports the end  *)
(* of the frame when the trailer has been consumed.  A compressed stream   *)
(* is a header symbol, run symbols (byte, length) and a trailer symbol.        *)
(***************************************************************************)
Bytes == {0, 1}

(* longest payload written through a compression stream *)
MaxLen == 5

(* sizeof(inbuf) and sizeof(outbuf), scaled down from 16384 *)
BufSize == 2

(* largest count passed to one read call *)
MaxCount == 3

COMPRESS_GZIP == "gzip"
COMPRESS_BZIP2 == "bzip2"
COMPRESS_XZ == "xz"
COMPRESS_ZSTD == "zstd"
CompressionTypes == {COMPRESS_GZIP, COMPRESS_BZIP2, COMPRESS_XZ, COMPRESS_ZSTD}

Payloads == UNION {[1..n -> Bytes] : n \in 0..MaxLen}

Take(s, n) == SubSeq(s, 1, Min(n, Len(s)))
Drop(s, n) == SubSeq(s, Min(n, Len(s)) + 1, Len(s))

(* ---- compressor: deflate / BZ2_bzCompress / lzma_code / ZSTD_compressStream *)
SymHeader == [k |-> "H", b |-> 0, n |-> 0]
SymTrailer == [k |-> "E", b |-> 0, n |-> 0]
SymRun(b, n) == [k |-> "R", b |-> b, n |-> n]

(* run is the run being collected (n = 0: none), pend the output not yet   *)
(* handed out                                                              *)
EncInit == [hdr |-> FALSE, run |-> SymRun(0, 0), pend |-> <<>>, fin |-> FALSE]

(* the compressor takes one input byte *)
EncByte(e, b) ==
    LET p0 == IF e.hdr THEN e.pend ELSE Append(e.pend, SymHeader)
    IN  IF e.run.n = 0
          THEN [e EXCEPT !.hdr = TRUE, !.pend = p0, !.run = SymRun(b, 1)]
        ELSE IF e.run.b = b
          THEN [e EXCEPT !.run = SymRun(b, e.run.n + 1)]
        ELSE [e EXCEPT !.pend = Append(p0, e.run), !.run = SymRun(b, 1)]

(* one call with the given input and avail_out: pending output is handed   *)
(* out first, input is taken while there is room for output                *)
RECURSIVE Compress(_, _, _, _)
Compress(e, in, out, avail) ==
    IF Len(out) = avail THEN [enc |-> e, in |-> in, out |-> out]
    ELSE IF e.pend # <<>>
      THEN Compress([e EXCEPT !.pend = Tail(e.pend)], in,
                    Append(out, Head(e.pend)), avail)
    ELSE IF in # <<>> THEN Compress(EncByte(e, Head(in)), Tail(in), out, avail)
    ELSE [enc |-> e, in |-> in, out |-> out]

(* one finishing call (Z_FINISH, BZ_FINISH, LZMA_FINISH, ZSTD_endStream):  *)
(* more is TRUE while output is still pending                              *)
CompressFinish(e, avail) ==
    LET p0 == IF e.hdr THEN e.pend ELSE Append(e.pend, SymHeader)
        p1 == IF e.run.n = 0 THEN p0 ELSE Append(p0, e.run)
        p2 == IF e.fin THEN e.pend ELSE Append(p1, SymTrailer)
        e2 == [hdr |-> TRUE, run |-> SymRun(0, 0), pend |-> Drop(p2, avail), fin |-> TRUE]
    IN  [enc |-> e2, out |-> Take(p2, avail), more |-> Drop(p2, avail) # <<>>]

(* ---- decompressor: inflate / BZ2_bzDecompress / lzma_code /             *)
(* ZSTD_decompressStream                                                   *)
DecInit == [phase |-> "hdr", b |-> 0, n |-> 0]

(* one call: ret is "end" when the trailer has been consumed and all       *)
(* output delivered, "error" on a malformed stream, "ok" otherwise         *)
RECURSIVE Decompress(_, _, _, _)
Decompress(d, in, out, avail) ==
    IF d.n > 0
      THEN IF Len(out) < avail
             THEN Decompress([d EXCEPT !.n = d.n - 1], in, Append(out, d.b), avail)
           ELSE [dec |-> d, in |-> in, out |-> out, ret |-> "ok"]
    ELSE IF d.phase = "end" THEN [dec |-> d, in |-> in, out |-> out, ret |-> "end"]
    ELSE IF in = <<>> THEN [dec |-> d, in |-> in, out |-> out, ret |-> "ok"]
    ELSE LET s == Head(in)
         IN  IF d.phase = "hdr" /\ s.k = "H"
               THEN Decompress([d EXCEPT !.phase = "body"], Tail(in), out, avail)
             ELSE IF d.phase = "body" /\ s.k = "E"
               THEN Decompress([d EXCEPT !.phase = "end"], Tail(in), out, avail)
             ELSE IF d.phase = "body" /\ s.k = "R"
               THEN Decompress([d EXCEPT !.b = s.b, !.n = s.n], Tail(in), out, avail)
             ELSE [dec |-> d, in |-> in, out |-> out, ret |-> "error"]

(* ---- the underlying stream: a memory stream (mem_stream.c) ---- *)
MemStream(data) == [data |-> data, pos |-> 0, closes |-> 0]

(* stream_read(underlying, inbuf, sizeof(inbuf)) *)
UnderRead(u, count) ==
    LET chunk == Take(Drop(u.data, u.pos), count)
    IN  [u |-> [u EXCEPT !.pos = u.pos + Len(chunk)], chunk |-> chunk]

(* stream_write(underlying, outbuf, compressed) *)
UnderWrite(u, syms) ==
    [u EXCEPT !.data = Take(u.data, u.pos) \o syms, !.pos = u.pos + Len(syms)]

(* compression_stream_init: inl is the codec's next_in/avail_in window *)
CompressionStreamInit(type, writing, owns) ==
    [type |-> type, is_writing |-> writing, owns_underlying |-> owns,
     codec_state |-> TRUE, at_eof |-> FALSE, outbuf |-> <<>>, outbuf_pos |-> 0,
     inl |-> <<>>, dec |-> DecInit, enc |-> EncInit]

(* the refill loop of compression_stream_read_impl, one branch per codec:  *)
(* zlib finishes the inflate when the underlying stream is at its end, the *)
(* others set at_eof; zstd starts every iteration with an empty input      *)
(* window; acc collects the input the codec consumed                       *)
RECURSIVE Refill(_, _, _, _, _, _)
Refill(type, d, in, u, out, acc) ==
    IF Len(out) = BufSize
      THEN [dec |-> d, inl |-> in, u |-> u, out |-> out, at_eof |-> FALSE,
            err |-> 0, fed |-> acc]
    ELSE
      LET in0 == IF type = COMPRESS_ZSTD THEN <<>> ELSE in
          rd  == UnderRead(u, BufSize)
          u1  == IF in0 = <<>> THEN rd.u ELSE u
          in1 == IF in0 = <<>> THEN rd.chunk ELSE in0
      IN  IF in1 = <<>>
            THEN IF type = COMPRESS_GZIP
                   THEN LET r == Decompress(d, <<>>, out, BufSize)
                        IN  [dec |-> r.dec, inl |-> <<>>, u |-> u1, out |-> r.out,
                             at_eof |-> r.ret = "end", err |-> 0, fed |-> acc]
                 ELSE [dec |-> d, inl |-> <<>>, u |-> u1, out |-> out,
                       at_eof |-> TRUE, err |-> 0, fed |-> acc]
          ELSE LET r == Decompress(d, in1, out, BufSize)
                   f1 == acc \o Take(in1, Len(in1) - Len(r.in))
               IN  IF r.ret = "error"
                     THEN [dec |-> r.dec, inl |-> r.in, u |-> u1, out |-> <<>>,
                           at_eof |-> FALSE, err |-> -EIO, fed |-> f1]
                   ELSE IF r.ret = "end"
                     THEN [dec |-> r.dec, inl |-> r.in, u |-> u1, out |-> r.out,
                           at_eof |-> TRUE, err |-> 0, fed |-> f1]
                   ELSE IF Len(r.out) > 0
                     THEN [dec |-> r.dec, inl |-> r.in, u |-> u1, out |-> r.out,
                           at_eof |-> FALSE, err |-> 0, fed |-> f1]
                   ELSE Refill(type, r.dec, r.in, u1, r.out, f1)

(* the compressed input the codec consumed during one                     *)
(* compression_stream_read_impl                                            *)
ReadFed(s, u) ==
    IF s.at_eof \/ s.outbuf_pos < Len(s.outbuf) THEN <<>>
    ELSE Refill(s.type, s.dec, s.inl, u, <<>>, <<>>).fed

(* the first test of compression_stream_read_impl *)
ReadAtEof(s) == s.at_eof

(* mutant of Deliver: a refill that produced nothing is reported as an     *)
(* I/O error                                                               *)
DeliverEmptyAsError(s, u, out, count) ==
    IF Len(out) = 0 THEN [s |-> s, u |-> u, ret |-> -EIO, data |-> <<>>]
    ELSE [s |-> [s EXCEPT !.outbuf_pos = Min(count, Len(out))], u |-> u,
          ret |-> Min(count, Len(out)), data |-> Take(out, Min(count, Len(out)))]

(* compression_stream.c:480-488: what a read returns after a refill that   *)
(* left out in the output buffer                                           *)
Deliver(s, u, out, count) ==
    IF Len(out) = 0 THEN [s |-> s, u |-> u, ret |-> 0, data |-> <<>>]
    ELSE [s |-> [s EXCEPT !.outbuf_pos = Min(count, Len(out))], u |-> u,
          ret |-> Min(count, Len(out)), data |-> Take(out, Min(count, Len(out)))]

(* compression_stream_read_impl: ret is the return value, data the bytes   *)
(* copied to the caller's buffer                                           *)
CompressionStreamRead(s, u, count) ==
    IF ReadAtEof(s) THEN [s |-> s, u |-> u, ret |-> 0, data |-> <<>>]
    ELSE IF s.outbuf_pos < Len(s.outbuf)
      THEN LET available == Len(s.outbuf) - s.outbuf_pos
               to_copy == Min(count, available)
           IN  [s |-> [s EXCEPT !.outbuf_pos = s.outbuf_pos + to_copy], u |-> u,
                ret |-> to_copy,
                data |-> SubSeq(s.outbuf, s.outbuf_pos + 1, s.outbuf_pos + to_copy)]
    ELSE LET f == Refill(s.type, s.dec, s.inl, u, <<>>, <<>>)
             s1 == [s EXCEPT !.dec = f.dec,
                             !.inl = IF s.type = COMPRESS_ZSTD THEN <<>> ELSE f.inl,
                             !.outbuf = f.out, !.outbuf_pos = 0,
                             !.at_eof = f.at_eof]
         IN  IF f.err < 0 THEN [s |-> s1, u |-> f.u, ret |-> f.err, data |-> <<>>]
             ELSE Deliver(s1, f.u, f.out, count)

(* the loop of compression_stream_write_impl: compress into outbuf and     *)
(* write it to the underlying stream until the input is consumed           *)
RECURSIVE WriteLoop(_, _, _)
WriteLoop(e, in, u) ==
    IF in = <<>> THEN [enc |-> e, u |-> u]
    ELSE LET r == Compress(e, in, <<>>, BufSize)
         IN  WriteLoop(r.enc, r.in, IF r.out # <<>> THEN UnderWrite(u, r.out) ELSE u)

CompressionStreamWrite(s, u, buf) ==
    LET w == WriteLoop(s.enc, buf, u)
    IN  [s |-> [s EXCEPT !.enc = w.enc], u |-> w.u, ret |-> Len(buf)]

(* the finish loop of compression_stream_close_impl *)
(* full: the underlying stream takes no more bytes, its writes fail; the   *)
(* result of stream_write is not looked at, failed only records it         *)
RECURSIVE FinishLoop(_, _, _, _)
FinishLoop(e, u, full, failed) ==
    LET r == CompressFinish(e, BufSize)
        u1 == IF r.out # <<>> /\ ~full THEN UnderWrite(u, r.out) ELSE u
        f1 == failed \/ (r.out # <<>> /\ full)
    IN  IF r.more THEN FinishLoop(r.enc, u1, full, f1)
        ELSE [enc |-> r.enc, u |-> u1, failed |-> f1]

(* mutant of CloseUnderlying: the underlying stream is closed regardless   *)
(* of owns_underlying                                                      *)
CloseUnderlyingAlways(s, u) == [u EXCEPT !.closes = u.closes + 1]

(* the last step of compression_stream_close_impl *)
CloseUnderlying(s, u) ==
    IF s.owns_underlying THEN [u EXCEPT !.closes = u.closes + 1] ELSE u

(* addresses malloc can return; 0 is NULL *)
MaxAddr == 2
Addrs == 1..MaxAddr

(* most buffers allocated by mmap on one stream; longest content of a      *)
(* stream on which munmap and a second mmap are tried                      *)
MaxMaps == 2
MaxMapLen == 2

NoUnmap == [op |-> "none", addr |-> 0, before |-> 0, ret |-> 0]

(* the buffers of log that have not been freed *)
LiveBuffers(log) == { i \in DOMAIN log : log[i].frees = 0 }

(* free(addr): free(NULL) does nothing; otherwise the buffer last          *)
(* allocated at addr is freed (once more, if it was freed already)         *)
Free(log, addr) ==
    IF addr = 0 THEN log
    ELSE LET at == { i \in DOMAIN log : log[i].addr = addr }
             i == CHOOSE k \in at : \A j \in at : j <= k
         IN  [log EXCEPT ![i].frees = @ + 1]

(* mutant of FreeMapping: the mapping is left allocated *)
FreeMappingNever(log, addr) == log

(* compression_stream.c:648-651, 853-856: if (stream->emulated_mmap_addr)  *)
(* free(stream->emulated_mmap_addr)                                        *)
FreeMapping(log, addr) == IF addr # 0 THEN Free(log, addr) ELSE log

(* compression_stream_munmap_impl(stream, addr, length) *)
CompressionStreamMunmap(addr, cur, log) ==
    IF addr # cur THEN [maddr |-> cur, mlog |-> log, ret |-> -EINVAL]
    ELSE [maddr |-> 0, mlog |-> Free(log, cur), ret |-> 0]

(* close calls counted on one stream *)
MaxCloses == 2

(* mutant of AlreadyClosed: close runs again on a closed stream *)
AlreadyClosedNever(s) == FALSE

(* compression_stream.c:698: if (!stream->codec_state) return 0 *)
AlreadyClosed(s) == ~s.codec_state

(* compression_stream.c:865: the value compression_stream_close_impl       *)
(* returns after the finish loop                                           *)
CloseRet(failed) == 0

(* compression_stream_close_impl *)
CompressionStreamClose(s, u, full) ==
    IF AlreadyClosed(s) THEN [s |-> s, u |-> u, ret |-> 0, failed |-> FALSE]
    ELSE LET w == IF s.is_writing THEN FinishLoop(s.enc, u, full, FALSE)
                  ELSE [enc |-> s.enc, u |-> u, failed |-> FALSE]
         IN  [s |-> [s EXCEPT !.enc = w.enc, !.codec_state = FALSE],
              u |-> CloseUnderlying(s, w.u), ret |-> CloseRet(w.failed),
              failed |-> w.failed]

CInit ==
    /\ \E type \in CompressionTypes, owns \in BOOLEAN :
          cs = CompressionStreamInit(type, TRUE, owns)
    /\ under = MemStream(<<>>)
    /\ cphase = "writing"
    /\ wrote = <<>>
    /\ got = <<>>
    /\ gotEOF = FALSE
    /\ nreads = 0
    /\ lastRet = 0
    /\ mapN = 0
    /\ mapStart = 0
    /\ mapBuf = <<>>
    /\ closeRet = 0
    /\ wfailed = FALSE
    /\ closeN = 0
    /\ maddr = 0
    /\ mlog = <<>>
    /\ unmap = NoUnmap
    /\ fed = <<>>
    /\ gotErr = FALSE

(* no compression stream is in use *)
CIdle ==
    /\ cs = CompressionStreamInit(COMPRESS_GZIP, TRUE, FALSE)
    /\ under = MemStream(<<>>)
    /\ cphase = "off"
    /\ wrote = <<>>
    /\ got = <<>>
    /\ gotEOF = FALSE
    /\ nreads = 0
    /\ lastRet = 0
    /\ mapN = 0
    /\ mapStart = 0
    /\ mapBuf = <<>>
    /\ closeRet = 0
    /\ wfailed = FALSE
    /\ closeN = 0
    /\ maddr = 0
    /\ mlog = <<>>
    /\ unmap = NoUnmap
    /\ fed = <<>>
    /\ gotErr = FALSE

(* stream_write(&cs.base, buf, count), the payload split in any way *)
Write ==
    /\ cphase = "writing"
    /\ \E n \in 1..MaxCount : \E buf \in [1..n -> Bytes] :
          /\ Len(wrote) + n <= MaxLen
          /\ LET r == CompressionStreamWrite(cs, under, buf)
             IN  /\ cs' = r.s
                 /\ under' = r.u
                 /\ wrote' = wrote \o buf
    /\ UNCHANGED << cphase, got, gotEOF, nreads, lastRet, mapN, mapStart,
                    mapBuf, closeRet, wfailed, closeN, maddr, mlog, unmap,
                    fed, gotErr >>

(* stream_close on the compression stream, in either mode and also when    *)
(* it is already closed                                                    *)
CloseStream ==
    /\ cphase \in {"writing", "wclosed", "reading", "mapped", "rclosed",
                   "damaged", "dclosed"}
    /\ \E full \in BOOLEAN :
          LET r == CompressionStreamClose(cs, under, full)
          IN  /\ cs' = r.s
              /\ under' = r.u
              /\ closeRet' = r.ret
              /\ wfailed' = (wfailed \/ r.failed)
    /\ cphase' = IF cs.is_writing THEN "wclosed"
                 ELSE IF cphase \in {"damaged", "dclosed"} THEN "dclosed"
                 ELSE "rclosed"
    /\ closeN' = IF closeN < MaxCloses THEN closeN + 1 ELSE closeN
    /\ maddr' = IF AlreadyClosed(cs) THEN maddr ELSE 0
    /\ mlog' = IF AlreadyClosed(cs) THEN mlog ELSE FreeMapping(mlog, maddr)
    /\ unmap' = NoUnmap
    /\ UNCHANGED << wrote, got, gotEOF, nreads, lastRet, mapN, mapStart,
                    mapBuf, fed, gotErr >>

(* a memory stream over the produced bytes and compression_stream_init in  *)
(* read mode with the codec that wrote them                                *)
OpenRead ==
    /\ cphase = "wclosed"
    /\ ~wfailed
    /\ \E owns \in BOOLEAN : cs' = CompressionStreamInit(cs.type, FALSE, owns)
    /\ under' = MemStream(under.data)
    /\ cphase' = "reading"
    /\ closeN' = 0
    /\ UNCHANGED << wrote, got, gotEOF, nreads, lastRet, mapN, mapStart,
                    mapBuf, closeRet, wfailed, maddr, mlog, unmap, fed, gotErr >>

(* a byte sequence no codec accepts at any place *)
SymBad == [k |-> "X", b |-> 0, n |-> 0]

(* longest content of a stream that is read back damaged *)
MaxDamagedLen == 2

(* the compressed stream is read back with one of its symbols damaged *)
OpenDamaged ==
    /\ cphase = "wclosed"
    /\ ~wfailed
    /\ Len(wrote) <= MaxDamagedLen
    /\ cs' = CompressionStreamInit(cs.type, FALSE, cs.owns_underlying)
    /\ \E i \in 1..Len(under.data) :
          under' = MemStream([under.data EXCEPT ![i] = SymBad])
    /\ cphase' = "damaged"
    /\ closeN' = 0
    /\ UNCHANGED << wrote, got, gotEOF, nreads, lastRet, mapN, mapStart,
                    mapBuf, closeRet, wfailed, maddr, mlog, unmap, fed, gotErr >>

(* a decoder that rejects whatever it is given *)
DecBad == [phase |-> "bad", b |-> 0, n |-> 0]

(* the decoder states a library can be in after it reported an error and   *)
(* is called again: zlib, bzip2 and liblzma are taken to stay where they   *)
(* stopped; zstd.h leaves the state of the context undefined               *)
AfterError(type, d) ==
    IF type = COMPRESS_ZSTD THEN {d, DecBad} ELSE {d}

(* reads made after one that returned 0 *)
MaxEofReads == 2

(* stream_read(&cs.base, buf, count), repeated up to and beyond the read   *)
(* that returns 0                                                          *)
Read ==
    /\ cphase \in {"reading", "damaged"}
    /\ nreads < MaxLen + 1 + MaxEofReads
    /\ \E count \in 1..MaxCount :
          LET r == CompressionStreamRead(cs, under, count)
          IN  /\ \E d \in (IF r.ret = -EIO THEN AfterError(cs.type, r.s.dec)
                                             ELSE {r.s.dec}) :
                    cs' = [r.s EXCEPT !.dec = d]
              /\ gotErr' = (gotErr \/ r.ret = -EIO)
              /\ under' = r.u
              /\ got' = got \o r.data
              /\ gotEOF' = (gotEOF \/ r.ret = 0)
              /\ lastRet' = r.ret
    /\ fed' = fed \o ReadFed(cs, under)
    /\ nreads' = nreads + 1
    /\ UNCHANGED << cphase, wrote, mapN, mapStart, mapBuf, closeRet, wfailed,
                    closeN, maddr, mlog, unmap >>

(* most reads made before the stream is mapped *)
MaxMapReads == 1

(* compression_stream_mmap_impl(stream, start, length, prot) after some    *)
(* reads, for a range inside the decompressed content: one read of length  *)
(* bytes from wherever the stream is into a malloc'ed buffer; what the     *)
(* read did not fill keeps whatever the allocation held; start is only     *)
(* stored                                                                  *)
(* the mapping before is freed first; buffer = 0: malloc failed;           *)
(* addresses are numbered in the order of their first use                  *)
Mmap ==
    /\ cphase \in {"reading", "mapped"}
    /\ nreads <= MaxMapReads
    /\ cphase = "mapped" => Len(wrote) <= MaxMapLen
    /\ Len(mlog) < MaxMaps
    /\ \E start \in 0..(Len(wrote) - 1) :
       \E length \in 1..(Len(wrote) - start) :
       \E buffer \in {0} \cup (IF mlog = <<>> THEN {1} ELSE Addrs) :
          LET log1 == FreeMapping(mlog, maddr)
              r == CompressionStreamRead(cs, under, length)
          IN  /\ buffer # 0 =>
                    \A i \in LiveBuffers(log1) : log1[i].addr # buffer
              /\ IF buffer = 0
                 THEN /\ UNCHANGED << cs, under, mapN, mapStart, mapBuf, cphase,
                                      fed, gotErr >>
                      /\ maddr' = 0
                      /\ mlog' = log1
                 ELSE IF r.ret < 0
                 THEN /\ cs' = r.s
                      /\ under' = r.u
                      /\ UNCHANGED << mapN, mapStart, mapBuf, cphase >>
                      /\ fed' = fed \o ReadFed(cs, under)
                      /\ maddr' = 0
                      /\ mlog' = Append(log1, [addr |-> buffer, frees |-> 1])
                 ELSE /\ cs' = r.s
                      /\ under' = r.u
                      /\ mapN' = length
                      /\ mapStart' = start
                      /\ \E rest \in [1..(length - Len(r.data)) -> Bytes] :
                            mapBuf' = r.data \o rest
                      /\ cphase' = "mapped"
                      /\ fed' = fed \o ReadFed(cs, under)
                      /\ maddr' = buffer
                      /\ mlog' = Append(log1, [addr |-> buffer, frees |-> 0])
    /\ unmap' = NoUnmap
    /\ UNCHANGED << wrote, got, gotEOF, nreads, lastRet, closeRet, wfailed,
                    closeN, gotErr >>

(* stream_munmap(&cs.base, addr, length) with any address, on a stream     *)
(* that has been mapped                                                    *)
Munmap ==
    /\ cphase = "mapped"
    /\ Len(wrote) <= MaxMapLen
    /\ \E addr \in {0} \cup Addrs :
          LET r == CompressionStreamMunmap(addr, maddr, mlog)
          IN  /\ maddr' = r.maddr
              /\ mlog' = r.mlog
              /\ unmap' = [op |-> "munmap", addr |-> addr, before |-> maddr,
                           ret |-> r.ret]
    /\ UNCHANGED << cs, under, cphase, wrote, got, gotEOF, nreads, lastRet,
                    mapN, mapStart, mapBuf, closeRet, wfailed, closeN, fed, gotErr >>

CNext ==
    \/ Write /\ UNCHANGED notComp
    \/ CloseStream /\ UNCHANGED notComp
    \/ OpenRead /\ UNCHANGED notComp
    \/ Read /\ UNCHANGED notComp
    \/ Mmap /\ UNCHANGED notComp
    \/ Munmap /\ UNCHANGED notComp
    \/ OpenDamaged /\ UNCHANGED notComp

(***************************************************************************)
(*            compression_stream_auto and stream_auto_decompress           *)
(***************************************************************************)
COMPRESS_NONE == "none"

(* sizeof(magic) *)
MagicSize == 16

(* largest original position of the source *)
MaxPos == 2

SigGzip == <<31, 139>>
SigBzip2 == <<66, 90, 104>>
SigXz == <<253, 55, 122, 88, 90, 0>>
SigZstd == <<40, 181, 47, 253>>
Signatures == {SigGzip, SigBzip2, SigXz, SigZstd}

(* what follows the leading bytes: nothing, one byte, more than the        *)
(* detection reads                                                         *)
Tails == {<<>>, <<0>>, [i \in 1..(MagicSize + 1) |-> 7],
          [i \in 1..(MagicSize + 1) |-> 100 + i]}

(* leading bytes: every prefix of every signature, alone or followed by a  *)
(* tail, and every signature with one byte changed                         *)
Leads ==
    {Take(sig, k) \o t : sig \in Signatures, k \in 0..6, t \in Tails}
    \cup {[sig EXCEPT ![i] = 1] \o t : sig \in Signatures, i \in 1..2, t \in Tails}

Builds == [bzip2 : BOOLEAN, lzma : BOOLEAN, zstd : BOOLEAN]

(* does s start with sig *)
StartsWith(s, sig) == Len(s) >= Len(sig) /\ SubSeq(s, 1, Len(sig)) = sig

(* compression_is_available *)
CompressionIsAvailable(b, type) ==
    CASE type = COMPRESS_NONE  -> TRUE
      [] type = COMPRESS_GZIP  -> TRUE
      [] type = COMPRESS_BZIP2 -> b.bzip2
      [] type = COMPRESS_XZ    -> b.lzma
      [] type = COMPRESS_ZSTD  -> b.zstd
      [] OTHER -> FALSE

(* mutant of AutoDetect: every signature of the table is recognised,       *)
(* whatever the build                                                      *)
AutoDetectAnyBuild(b, magic) ==
    IF StartsWith(magic, SigGzip) THEN COMPRESS_GZIP
    ELSE IF StartsWith(magic, SigBzip2) THEN COMPRESS_BZIP2
    ELSE IF StartsWith(magic, SigXz) THEN COMPRESS_XZ
    ELSE IF StartsWith(magic, SigZstd) THEN COMPRESS_ZSTD
    ELSE COMPRESS_NONE

(* the magic-byte test of compression_stream_auto on the nread bytes read *)
AutoDetect(b, magic) ==
    IF StartsWith(magic, SigGzip) THEN COMPRESS_GZIP
    ELSE IF b.bzip2 /\ StartsWith(magic, SigBzip2) THEN COMPRESS_BZIP2
    ELSE IF b.lzma /\ StartsWith(magic, SigXz) THEN COMPRESS_XZ
    ELSE IF b.zstd /\ StartsWith(magic, SigZstd) THEN COMPRESS_ZSTD
    ELSE COMPRESS_NONE

(* the magic-byte test of stream_auto_decompress *)
BufferedDetect(b, magic) ==
    IF StartsWith(magic, SigGzip) THEN COMPRESS_GZIP
    ELSE IF b.bzip2 /\ StartsWith(magic, SigBzip2) THEN COMPRESS_BZIP2
    ELSE IF b.lzma /\ StartsWith(magic, SigXz) THEN COMPRESS_XZ
    ELSE IF b.zstd /\ StartsWith(magic, SigZstd) THEN COMPRESS_ZSTD
    ELSE COMPRESS_NONE

(* stream_seek(underlying, 0, SEEK_SET) *)
SeekBack(u) == [u EXCEPT !.pos = 0]

(* compression_stream_auto: ret is its return value, type the codec of the *)
(* compression stream it initialised                                       *)
(* ok: init_codec succeeds (it fails with -ENOMEM or -EIO);                *)
(* failed: a signature was recognised and the codec did not initialise     *)
CompressionStreamAuto(b, u, ok) ==
    LET rd == UnderRead(u, MagicSize)
        type == AutoDetect(b, rd.chunk)
    IN  IF ~u.seekable
          THEN [u |-> rd.u, ret |-> -EIO, type |-> COMPRESS_NONE, failed |-> FALSE]
        ELSE IF type = COMPRESS_NONE
          THEN [u |-> SeekBack(rd.u), ret |-> -EINVAL, type |-> COMPRESS_NONE,
                failed |-> FALSE]
        ELSE IF ~CompressionIsAvailable(b, type)
          THEN [u |-> SeekBack(rd.u), ret |-> -ENOSYS, type |-> COMPRESS_NONE,
                failed |-> TRUE]
        ELSE IF ~ok
          THEN [u |-> SeekBack(rd.u), ret |-> -ENOMEM, type |-> COMPRESS_NONE,
                failed |-> TRUE]
        ELSE [u |-> SeekBack(rd.u), ret |-> 0, type |-> type, failed |-> FALSE]

(* the buffered detection of stream_auto_decompress *)
(* stream.c:498-499, 508: the wrapper is freed and the source is returned  *)
(* where the detection left it                                             *)
InitFailed(u, chunk) ==
    [u |-> u, out |-> "source", type |-> COMPRESS_NONE, replay |-> <<>>,
     failed |-> TRUE]

BufferedAutoDecompress(b, u, ok) ==
    LET rd == UnderRead(u, MagicSize)
        ctype == BufferedDetect(b, rd.chunk)
    IN  IF Len(rd.chunk) = 0
          THEN [u |-> rd.u, out |-> "source", type |-> COMPRESS_NONE,
                replay |-> <<>>, failed |-> FALSE]
        ELSE IF ctype = COMPRESS_NONE
          THEN [u |-> rd.u, out |-> "replay", type |-> COMPRESS_NONE,
                replay |-> rd.chunk, failed |-> FALSE]
        ELSE IF CompressionIsAvailable(b, ctype) /\ ok
          THEN [u |-> rd.u, out |-> "cs", type |-> ctype, replay |-> rd.chunk,
                failed |-> FALSE]
        ELSE InitFailed(rd.u, rd.chunk)

(* stream_auto_decompress *)
StreamAutoDecompressBytes(b, u, ok1, ok2) ==
    LET a == CompressionStreamAuto(b, u, ok1)
    IN  IF u.seekable /\ a.ret = 0
          THEN [u |-> a.u, out |-> "cs", type |-> a.type, replay |-> <<>>,
                failed |-> FALSE]
        ELSE IF u.seekable /\ a.ret = -EINVAL
          THEN [u |-> a.u, out |-> "source", type |-> COMPRESS_NONE,
                replay |-> <<>>, failed |-> FALSE]
        ELSE LET r == BufferedAutoDecompress(b, IF u.seekable THEN a.u ELSE u,
                                              ok2)
             IN  [r EXCEPT !.failed = @ \/ (u.seekable /\ a.failed)]

(* largest small count of a read of the returned stream *)
MaxChunk == 3

(* the counts of the reads: small ones, the size of the replay buffer and  *)
(* one that is larger                                                      *)
ReadCounts == (1..MaxChunk) \cup {MagicSize, MagicSize + 2}

(* mutant of PrefetchRead: the bytes held back by the detection are not    *)
(* replayed                                                                *)
PrefetchReadUnderlyingOnly(buf, pos, u, count) ==
    LET rd == UnderRead(u, count)
    IN  [pos |-> pos, u |-> rd.u, chunk |-> rd.chunk]

(* prefetch_read_internal: first from the buffer, then from the            *)
(* underlying stream                                                       *)
PrefetchRead(buf, pos, u, count) ==
    LET to_copy == IF pos < Len(buf) THEN Min(count, Len(buf) - pos) ELSE 0
        copied == SubSeq(buf, pos + 1, pos + to_copy)
        rd == IF count - to_copy > 0
              THEN UnderRead(u, count - to_copy)
              ELSE [u |-> u, chunk |-> <<>>]
    IN  [pos |-> pos + to_copy, u |-> rd.u, chunk |-> copied \o rd.chunk]

AInit ==
    /\ build \in Builds
    /\ lead \in Leads
    /\ apos0 \in 0..MaxPos
    /\ \E seekable \in BOOLEAN :
          asrc = [data |-> [i \in 1..apos0 |-> 9] \o lead, pos |-> apos0,
                  closes |-> 0, seekable |-> seekable]
    /\ aphase = "init"
    /\ afun = "none"
    /\ aret = 0
    /\ aout = "none"
    /\ atype = COMPRESS_NONE
    /\ replay = <<>>
    /\ rpos = 0
    /\ adeliv = <<>>
    /\ alast = -1
    /\ afail = FALSE

(* no detection is made *)
AIdle ==
    /\ build = [bzip2 |-> TRUE, lzma |-> TRUE, zstd |-> TRUE]
    /\ lead = <<>>
    /\ apos0 = 0
    /\ asrc = [data |-> <<>>, pos |-> 0, closes |-> 0, seekable |-> TRUE]
    /\ aphase = "off"
    /\ afun = "none"
    /\ aret = 0
    /\ aout = "none"
    /\ atype = COMPRESS_NONE
    /\ replay = <<>>
    /\ rpos = 0
    /\ adeliv = <<>>
    /\ alast = -1
    /\ afail = FALSE

(* compression_stream_auto(&cs, &src, owns) *)
CallAuto ==
    /\ aphase = "init"
    /\ \E ok \in BOOLEAN :
          LET r == CompressionStreamAuto(build, asrc, ok)
          IN  /\ asrc' = r.u
              /\ aret' = r.ret
              /\ atype' = r.type
              /\ aout' = IF r.ret = 0 THEN "cs" ELSE "none"
              /\ afail' = r.failed
    /\ afun' = "auto"
    /\ aphase' = "done"
    /\ UNCHANGED << build, lead, apos0, replay, rpos, adeliv, alast >>

(* stream_auto_decompress(&src, &cs, owns) *)
CallAutoDecompress ==
    /\ aphase = "init"
    /\ \E ok1, ok2 \in BOOLEAN :
          LET r == StreamAutoDecompressBytes(build, asrc, ok1, ok2)
          IN  /\ asrc' = r.u
              /\ aout' = r.out
              /\ atype' = r.type
              /\ replay' = r.replay
              /\ afail' = r.failed
    /\ afun' = "decompress"
    /\ aphase' = "done"
    /\ UNCHANGED << build, lead, apos0, aret, rpos, adeliv, alast >>

(* stream_read(s, buf, count) on the stream stream_auto_decompress         *)
(* returned, when that is the source itself or the replay wrapper          *)
ReadReturned ==
    /\ aphase = "done"
    /\ afun = "decompress"
    /\ aout \in {"source", "replay"}
    /\ \E count \in ReadCounts :
          LET r == IF aout = "replay"
                   THEN PrefetchRead(replay, rpos, asrc, count)
                   ELSE [pos |-> rpos, u |-> UnderRead(asrc, count).u,
                         chunk |-> UnderRead(asrc, count).chunk]
          IN  /\ asrc' = r.u
              /\ rpos' = r.pos
              /\ adeliv' = adeliv \o r.chunk
              /\ alast' = Len(r.chunk)
    /\ UNCHANGED << build, lead, apos0, aphase, afun, aret, aout, atype,
                    replay, afail >>

ANext ==
    \/ CallAuto /\ UNCHANGED notAuto
    \/ CallAutoDecompress /\ UNCHANGED notAuto
    \/ ReadReturned /\ UNCHANGED notAuto

(***************************************************************************)
(*            archive_stream.c: an archive opened for writing              *)
(***************************************************************************)
EBUSY == 16

(* most calls made on one archive *)
MaxCalls == 5

(* what libarchive emits: entry header, entry data, entry padding, footer *)
SymEntryHeader == "H"
SymEntryData == "D"
SymEntryPad == "P"
SymFooter == "F"

(* stream_archive_write_data: stream_write(stream->underlying, ...) *)
SinkWrite(s, syms) ==
    IF syms = <<>> THEN s
    ELSE [s EXCEPT !.data = s.data \o syms,
                   !.late = IF s.closes > 0 THEN s.late + 1 ELSE s.late]

(* libarchive passes what it holds to the write callback, or keeps it *)
LibFlush(l, s, flush) ==
    IF flush THEN [lib |-> [l EXCEPT !.buf = <<>>], sink |-> SinkWrite(s, l.buf)]
    ELSE [lib |-> l, sink |-> s]

(* archive_write_finish_entry inside libarchive: pad the open entry *)
LibFinishEntry(l) ==
    IF l.entry THEN [l EXCEPT !.buf = Append(l.buf, SymEntryPad), !.entry = FALSE]
    ELSE l

(* archive_write_header: finishes an unfinished entry, then the header *)
LibWriteHeader(l) ==
    [LibFinishEntry(l) EXCEPT !.buf = Append(LibFinishEntry(l).buf, SymEntryHeader),
                              !.entry = TRUE]

(* archive_write_data *)
LibWriteData(l) == [l EXCEPT !.buf = Append(l.buf, SymEntryData)]

(* archive_write_close: finishes an unfinished entry, writes the footer    *)
(* and passes everything to the write callback                             *)
LibWriteClose(l) ==
    [LibFinishEntry(l) EXCEPT !.buf = Append(LibFinishEntry(l).buf, SymFooter)]

(* archive_stream_open_write *)
ArchiveStreamOpenWrite(owns) ==
    [archive |-> TRUE, is_writing |-> TRUE, entry_open |-> FALSE,
     entry |-> FALSE, owns_underlying |-> owns]

(* mutant of EntryBusy: a new entry is accepted while one is open *)
EntryBusyNever(a) == FALSE

(* archive_stream.c:310: if (stream->entry_open) return -EBUSY *)
EntryBusy(a) == a.entry_open

(* archive_stream_new_entry; ok: archive_write_header returned ARCHIVE_OK, *)
(* flush: libarchive called the write callback                             *)
ArchiveStreamNewEntry(a, l, s, ok, flush) ==
    IF ~a.is_writing THEN [ar |-> a, lib |-> l, sink |-> s, ret |-> -EINVAL]
    ELSE IF EntryBusy(a) THEN [ar |-> a, lib |-> l, sink |-> s, ret |-> -EBUSY]
    ELSE IF ~ok THEN [ar |-> a, lib |-> l, sink |-> s, ret |-> -EIO]
    ELSE LET f == LibFlush(LibWriteHeader(l), s, flush)
         IN  [ar |-> [a EXCEPT !.entry = TRUE, !.entry_open = TRUE],
              lib |-> f.lib, sink |-> f.sink, ret |-> 0]

(* archive_stream_write_data of one block; ret 1 stands for the count *)
ArchiveStreamWriteData(a, l, s, ok, flush) ==
    IF ~a.is_writing THEN [ar |-> a, lib |-> l, sink |-> s, ret |-> -EINVAL]
    ELSE IF ~a.entry_open THEN [ar |-> a, lib |-> l, sink |-> s, ret |-> -EINVAL]
    ELSE IF ~ok THEN [ar |-> a, lib |-> l, sink |-> s, ret |-> -EIO]
    ELSE LET f == LibFlush(LibWriteData(l), s, flush)
         IN  [ar |-> a, lib |-> f.lib, sink |-> f.sink, ret |-> 1]

(* archive_stream_finish_entry *)
ArchiveStreamFinishEntry(a, l, s, ok, flush) ==
    IF ~a.is_writing THEN [ar |-> a, lib |-> l, sink |-> s, ret |-> -EINVAL]
    ELSE IF ~a.entry_open THEN [ar |-> a, lib |-> l, sink |-> s, ret |-> -EINVAL]
    ELSE IF ~ok THEN [ar |-> a, lib |-> l, sink |-> s, ret |-> -EIO]
    ELSE LET f == LibFlush(LibFinishEntry(l), s, flush)
         IN  [ar |-> [a EXCEPT !.entry = FALSE, !.entry_open = FALSE],
              lib |-> f.lib, sink |-> f.sink, ret |-> 0]

(* archive_stream.c:386-401: finish the entry that is still open, then    *)
(* archive_write_close; buf is then what goes to the write callback        *)
ArchiveFinalize(a, l) ==
    LibWriteClose(IF a.entry_open /\ a.is_writing THEN LibFinishEntry(l) ELSE l)

(* mutant of ArchiveCloseUnderlying: the underlying stream is closed       *)
(* before the archive is finalised                                         *)
ArchiveCloseUnderlyingFirst(a, l, s) ==
    LET s1 == IF a.owns_underlying THEN [s EXCEPT !.closes = s.closes + 1] ELSE s
    IN  SinkWrite(s1, ArchiveFinalize(a, l).buf)

(* archive_stream.c:396-408: the footer reaches the underlying stream,     *)
(* then stream_close(underlying) if the archive owns it                    *)
ArchiveCloseUnderlying(a, l, s) ==
    LET s1 == SinkWrite(s, ArchiveFinalize(a, l).buf)
    IN  IF a.owns_underlying THEN [s1 EXCEPT !.closes = s1.closes + 1] ELSE s1

(* archive_stream_close *)
ArchiveStreamClose(a, l, s) ==
    IF ~a.archive THEN [ar |-> a, lib |-> l, sink |-> s, ret |-> 0]
    ELSE [ar |-> [a EXCEPT !.archive = FALSE, !.entry = FALSE],
          lib |-> [ArchiveFinalize(a, l) EXCEPT !.buf = <<>>],
          sink |-> ArchiveCloseUnderlying(a, l, s), ret |-> 0]

AWInit ==
    /\ \E owns \in BOOLEAN : ar = ArchiveStreamOpenWrite(owns)
    /\ lib = [buf |-> <<>>, entry |-> FALSE]
    /\ sink = [data |-> <<>>, closes |-> 0, late |-> 0]
    /\ wcall = [op |-> "open_write", ret |-> 0, open |-> FALSE, data |-> <<>>,
                buf |-> <<>>]
    /\ wcalls = 0

(* no archive is written *)
AWIdle ==
    /\ ar = [archive |-> FALSE, is_writing |-> FALSE, entry_open |-> FALSE,
             entry |-> FALSE, owns_underlying |-> FALSE]
    /\ lib = [buf |-> <<>>, entry |-> FALSE]
    /\ sink = [data |-> <<>>, closes |-> 0, late |-> 0]
    /\ wcall = [op |-> "none", ret |-> 0, open |-> FALSE, data |-> <<>>,
                buf |-> <<>>]
    /\ wcalls = 0

(* the call op has returned r.ret and left the state r *)
Called(op, r) ==
    /\ ar' = r.ar
    /\ lib' = r.lib
    /\ sink' = r.sink
    /\ wcall' = [op |-> op, ret |-> r.ret, open |-> ar.entry_open,
                 data |-> sink.data, buf |-> lib.buf]
    /\ wcalls' = wcalls + 1

(* an archive_stream open for writing that can take one more call *)
CanCall == ar.archive /\ ar.is_writing /\ wcalls < MaxCalls

NewEntry ==
    /\ CanCall
    /\ \E ok, flush \in BOOLEAN :
          Called("new_entry", ArchiveStreamNewEntry(ar, lib, sink, ok, flush))

WriteData ==
    /\ CanCall
    /\ \E ok, flush \in BOOLEAN :
          Called("write_data", ArchiveStreamWriteData(ar, lib, sink, ok, flush))

FinishEntry ==
    /\ CanCall
    /\ \E ok, flush \in BOOLEAN :
          Called("finish_entry", ArchiveStreamFinishEntry(ar, lib, sink, ok, flush))

(* archive_stream_close, also on an archive that is already closed *)
CloseArchive ==
    /\ ar.is_writing
    /\ wcalls <= MaxCalls
    /\ Called("close", ArchiveStreamClose(ar, lib, sink))

AWNext ==
    \/ NewEntry /\ UNCHANGED notArchW
    \/ WriteData /\ UNCHANGED notArchW
    \/ FinishEntry /\ UNCHANGED notArchW
    \/ CloseArchive /\ UNCHANGED notArchW

(***************************************************************************)
(*        archive_stream.c / walker.c: an archive opened for reading       *)
(***************************************************************************)
(* most entries read from one archive, largest declared entry size, most   *)
(* reads made on one per-entry stream                                      *)
MaxEntries == 2
MaxSize == 2
MaxReads == 3

(* libarchive's fatal result code, a negative value *)
ARCHIVE_FATAL == -30

(* what archive_read_next_header answers *)
HeaderResults == {"ok", "eof", "error"}

(* declared sizes of an entry, and what the library really holds for it *)
EntrySizes == 0..MaxSize
EntryData == 0..(MaxSize + 1)

(* archive_read_next_header; r and data are what the container holds next *)
ArchiveReadNextHeader(l, r, data) ==
    IF ~l.open THEN [l EXCEPT !.hdr = "error"]
    ELSE IF r = "ok"
    THEN [l EXCEPT !.pos = l.pos + 1, !.left = data, !.eof = FALSE, !.hdr = "ok"]
    ELSE [l EXCEPT !.left = 0, !.hdr = r]

(* archive_read_data_skip *)
ArchiveReadDataSkip(l) == [l EXCEPT !.left = 0, !.eof = TRUE]

(* archive_read_data: up to count bytes of the current entry, 0 at its     *)
(* end and from then on, or a negative code                                *)
ArchiveReadData(l, count, fail) ==
    IF fail /\ ~l.eof THEN [lib |-> l, nread |-> ARCHIVE_FATAL]
    ELSE LET n == Min(count, l.left)
         IN  [lib |-> [l EXCEPT !.left = l.left - n, !.eof = l.eof \/ n = 0],
              nread |-> n]

RLibInit == [open |-> TRUE, pos |-> 0, left |-> 0, eof |-> FALSE, hdr |-> "none"]

(* one step of archive_stream_walk as seen from outside *)
Event(e, i, v) == [e |-> e, i |-> i, v |-> v]

(* mutant of WalkStops: the walk goes on whatever the callback returns *)
WalkStopsNever(v) == FALSE

(* archive_stream.c:175: if (cb_ret != 0) return cb_ret *)
WalkStops(v) == v # 0

(* archive_stream.c:183-186 *)
WalkResult(hdr) == IF hdr # "eof" THEN -EIO ELSE 0

(* archive_stream_walk, the loop head: archive_read_next_header *)
WalkHeader ==
    /\ awalk.pc = "header"
    /\ \E r \in HeaderResults, data \in EntryData :
          /\ r = "ok" => rlib.pos < MaxEntries
          /\ LET l == ArchiveReadNextHeader(rlib, r, data)
             IN  /\ rlib' = l
                 /\ awalk' = IF l.hdr = "ok"
                             THEN [awalk EXCEPT
                                     !.pc = "callback",
                                     !.trace = Append(@, Event("header", l.pos, 0))]
                             ELSE [awalk EXCEPT !.pc = "done",
                                                !.ret = WalkResult(l.hdr)]
    /\ ropen.archive
    /\ UNCHANGED << aes, ecall, ropen >>

(* archive_stream_walk, the loop body: the callback has read k bytes of    *)
(* the entry and returns v                                                 *)
WalkCallback ==
    /\ awalk.pc = "callback"
    /\ \E v \in CbRets, k \in 0..rlib.left :
          LET l1 == [rlib EXCEPT !.left = @ - k]
              t1 == Append(awalk.trace, Event("callback", rlib.pos, v))
          IN  IF WalkStops(v)
              THEN /\ rlib' = l1
                   /\ awalk' = [pc |-> "done", ret |-> v, trace |-> t1]
              ELSE /\ rlib' = ArchiveReadDataSkip(l1)
                   /\ awalk' = [awalk EXCEPT
                                  !.pc = "header",
                                  !.trace = Append(t1, Event("skip", rlib.pos, 0))]
    /\ ropen.archive
    /\ UNCHANGED << aes, ecall, ropen >>

(* archive_entry_stream_init *)
ArchiveEntryStreamInit(entry_size) ==
    [live |-> "open", bytes_read |-> 0, entry_size |-> entry_size,
     delivered |-> 0, reads |-> 0]

AesNone == [live |-> "none", bytes_read |-> 0, entry_size |-> 0,
            delivered |-> 0, reads |-> 0]

(* mutant of Clamp: the count is passed on as it is *)
ClampNone(s, count) == count

(* walker.c:59-60: don't read past the end of the entry *)
Clamp(s, count) ==
    IF s.entry_size >= 0 /\ s.bytes_read + count > s.entry_size
    THEN s.entry_size - s.bytes_read
    ELSE count

(* archive_entry_stream_read *)
ArchiveEntryStreamRead(s, l, count, fail) ==
    LET c == Clamp(s, count)
    IN  IF c = 0 THEN [aes |-> s, lib |-> l, ret |-> 0]
        ELSE LET r == ArchiveReadData(l, c, fail)
             IN  [aes |-> IF r.nread > 0
                          THEN [s EXCEPT !.bytes_read = @ + r.nread]
                          ELSE s,
                  lib |-> r.lib, ret |-> r.nread]

(* archive_entry_stream_close: the archive is left alone *)
ArchiveEntryStreamClose(s, l) == [aes |-> s, lib |-> l, ret |-> 0]

ECallNone == [op |-> "none", ret |-> 0, delivered |-> 0, eof |-> FALSE,
              lib |-> RLibInit]

(* the call op on the per-entry stream has returned r.ret *)
ECalled(op, r) ==
    ecall' = [op |-> op, ret |-> r.ret, delivered |-> aes.delivered,
              eof |-> rlib.eof, lib |-> rlib]

(* walk_archive: the data left of the entry before is skipped (452) and    *)
(* the next header is read (384); a stream is set up for the entry (410)   *)
EntryHeader ==
    /\ aes.live \in {"none", "closed"}
    /\ \E r \in HeaderResults, size \in EntrySizes, data \in EntryData :
          /\ r = "ok" => rlib.pos < MaxEntries
          /\ LET l0 == IF aes.live = "closed" THEN ArchiveReadDataSkip(rlib)
                       ELSE rlib
                 l == ArchiveReadNextHeader(l0, r, data)
             IN  /\ rlib' = l
                 /\ aes' = IF l.hdr = "ok" THEN ArchiveEntryStreamInit(size)
                           ELSE [aes EXCEPT !.live = "end"]
    /\ ecall' = [ECallNone EXCEPT !.op = "header"]
    /\ ropen.archive
    /\ UNCHANGED << awalk, ropen >>

(* stream_read on the per-entry stream *)
EntryRead ==
    /\ aes.live = "open"
    /\ aes.reads < MaxReads
    /\ \E count \in 0..MaxCount, fail \in BOOLEAN :
          LET r == ArchiveEntryStreamRead(aes, rlib, count, fail)
          IN  /\ aes' = [r.aes EXCEPT
                           !.reads = @ + 1,
                           !.delivered = @ + (IF r.ret > 0 THEN r.ret ELSE 0)]
              /\ rlib' = r.lib
              /\ ECalled("read", r)
    /\ ropen.archive
    /\ UNCHANGED << awalk, ropen >>

(* stream_close on the per-entry stream (walker.c:448-449) *)
EntryClose ==
    /\ aes.live = "open"
    /\ LET r == ArchiveEntryStreamClose(aes, rlib)
       IN  /\ aes' = [r.aes EXCEPT !.live = "closed"]
           /\ rlib' = r.lib
           /\ ECalled("close", r)
    /\ ropen.archive
    /\ UNCHANGED << awalk, ropen >>

(* how archive_stream_open ends: it succeeds, or archive_read_new, calloc  *)
(* or archive_read_open fails                                              *)
OpenOutcomes == {"ok", "new", "calloc", "open"}

(* archive_stream_open(stream, underlying, owns); the underlying stream is *)
(* stored before anything can fail, the archive handle only at the end     *)
ArchiveStreamOpen(owns, outcome) ==
    [archive |-> outcome = "ok", underlying |-> TRUE, owns_underlying |-> owns,
     ret |-> CASE outcome = "ok" -> 0
               [] outcome \in {"new", "calloc"} -> -ENOMEM
               [] OTHER -> -EIO,
     uclosed |-> 0, nclose |-> 0]

(* mutant of ArchiveClosed: close goes on without an archive handle *)
ArchiveClosedNever(a) == FALSE

(* archive_stream.c:383: if (!stream->archive) return 0 *)
ArchiveClosed(a) == ~a.archive

(* archive_stream_close of an archive opened for reading: archive_read_free *)
(* and stream_close(underlying) if the archive owns it                     *)
ArchiveStreamCloseRead(a, l) ==
    IF ArchiveClosed(a) THEN [ropen |-> a, lib |-> l, ret |-> 0]
    ELSE LET owned == a.owns_underlying /\ a.underlying
         IN  [ropen |-> [a EXCEPT !.archive = FALSE,
                                  !.underlying = IF owned THEN FALSE ELSE @,
                                  !.uclosed = IF owned THEN @ + 1 ELSE @],
              lib |-> [l EXCEPT !.open = FALSE], ret |-> 0]

(* archive_stream_close, after a failed open too, and a second time; not   *)
(* from inside archive_stream_walk                                         *)
CloseReadArchive ==
    /\ awalk.pc \in {"off", "done"}
    /\ ropen.nclose < MaxCloses
    /\ LET r == ArchiveStreamCloseRead(ropen, rlib)
       IN  /\ ropen' = [r.ropen EXCEPT !.nclose = @ + 1]
           /\ rlib' = r.lib
           /\ ecall' = [ECallNone EXCEPT !.op = "archive_close", !.ret = r.ret]
    /\ UNCHANGED << awalk, aes >>

(* archive_stream_open has returned; an archive that opened is walked with *)
(* archive_stream_walk, or its entries are read through per-entry streams  *)
ARInit ==
    /\ ecall = ECallNone
    /\ \E owns \in BOOLEAN, outcome \in OpenOutcomes :
          /\ ropen = ArchiveStreamOpen(owns, outcome)
          /\ rlib = [RLibInit EXCEPT !.open = (outcome = "ok")]
          /\ \E m \in {"walk", "entry"} :
                /\ awalk = [pc |-> IF m = "walk" /\ outcome = "ok"
                                   THEN "header" ELSE "off",
                            ret |-> 0, trace |-> <<>>]
                /\ aes = [AesNone EXCEPT
                            !.live = IF m = "entry" /\ outcome = "ok"
                                     THEN "none" ELSE "off"]

(* no archive is read *)
ARIdle ==
    /\ rlib = [RLibInit EXCEPT !.open = FALSE]
    /\ ecall = ECallNone
    /\ awalk = [pc |-> "off", ret |-> 0, trace |-> <<>>]
    /\ aes = [AesNone EXCEPT !.live = "off"]
    /\ ropen = [archive |-> FALSE, underlying |-> FALSE,
                owns_underlying |-> FALSE, ret |-> 0, uclosed |-> 0,
                nclose |-> 0]

ARNext ==
    \/ WalkHeader /\ UNCHANGED notArchR
    \/ WalkCallback /\ UNCHANGED notArchR
    \/ EntryHeader /\ UNCHANGED notArchR
    \/ EntryRead /\ UNCHANGED notArchR
    \/ EntryClose /\ UNCHANGED notArchR
    \/ CloseReadArchive /\ UNCHANGED notArchR

(***************************************************************************)
(*     stream.c: the generic entry points; compression_stream_init         *)
(***************************************************************************)
(* most calls made on one stream *)
MaxApiCalls == 2

StreamOps == {"read", "write", "seek", "tell", "size", "mmap", "munmap", "flush"}

(* the concrete stream types of the library *)
StreamKinds == {"file", "mem", "compression", "prefetch", "entry", "archive"}

(* the operations each type's table provides; an archive_stream's base is  *)
(* initialised with no table at all (stream_init(&stream->base, NULL, ..)) *)
OpsOf(kind) ==
    CASE kind = "file"        -> StreamOps
      [] kind = "mem"         -> StreamOps \ {"flush"}
      [] kind = "compression" -> {"read", "write", "mmap", "munmap"}
      [] kind = "prefetch"    -> {"read", "tell"}
      [] kind = "entry"       -> {"read", "tell", "size"}
      [] OTHER                -> {}

HasOpsTable(kind) == kind # "archive"

(* STREAM_CAP_TELL is among the type's capabilities *)
CapTell(kind) == kind \in {"file", "mem", "prefetch", "entry"}

(* what a concrete operation answers: an error, nothing, one byte *)
ConcreteResults == {-EIO, 0, 1}

O_RDONLY == "O_RDONLY"
O_WRONLY == "O_WRONLY"
O_RDWR == "O_RDWR"
AccModes == {O_RDONLY, O_WRONLY, O_RDWR}

(* the struct compression_stream of a stream that is not one *)
NoCodec ==
    [CompressionStreamInit(COMPRESS_NONE, FALSE, FALSE) EXCEPT !.codec_state = FALSE]

(* a stream under a compression stream *)
GUnder(data) ==
    [data |-> data, pos |-> 0, closes |-> 0, reads |-> 0, writes |-> 0, seeks |-> 0]

(* mutant of OneWay: every access mode is accepted *)
OneWayAny(mode) == TRUE

(* compression_stream.c:257-267: O_RDONLY or O_WRONLY, nothing else *)
OneWay(mode) == mode \in {O_RDONLY, O_WRONLY}

(* init_codec: no codec for COMPRESS_NONE *)
InitCodec(type) == IF type = COMPRESS_NONE THEN -ENOSYS ELSE 0

(* compression_stream_init *)
CompressionStreamInitCall(b, u, type, mode, owns) ==
    IF ~CompressionIsAvailable(b, type)
      THEN [c |-> NoCodec, u |-> u, ret |-> -ENOSYS]
    ELSE IF ~OneWay(mode)
      THEN [c |-> NoCodec, u |-> u, ret |-> -EINVAL]
    ELSE IF InitCodec(type) # 0
      THEN [c |-> NoCodec, u |-> u, ret |-> InitCodec(type)]
    ELSE [c |-> CompressionStreamInit(type, mode = O_WRONLY, owns), u |-> u,
          ret |-> 0]

(* what a codec does when it is handed the state of the other direction *)
CodecOutcomes == {"error", "done"}

(* compression_stream_read_impl on a stream initialised for writing: its   *)
(* input window is empty, so the underlying stream is read; the            *)
(* decompressor is then run on the compressor's state                      *)
ReadOnWriter(c, u, outcome) ==
    IF c.at_eof THEN [c |-> c, u |-> u, ret |-> 0]
    ELSE LET rd == UnderRead(u, BufSize)
             u1 == [rd.u EXCEPT !.reads = @ + 1]
         IN  IF rd.chunk = <<>>
             THEN [c |-> [c EXCEPT !.at_eof = (c.type # COMPRESS_GZIP)
                                                \/ outcome = "done"],
                   u |-> u1, ret |-> 0]
             ELSE IF outcome = "error"
             THEN [c |-> [c EXCEPT !.inl = rd.chunk], u |-> u1, ret |-> -EIO]
             ELSE [c |-> [c EXCEPT !.at_eof = TRUE], u |-> u1, ret |-> 0]

(* compression_stream_write_impl on a stream initialised for reading: the  *)
(* codec's input window is pointed at buf; with count = 0 the loop is not  *)
(* entered, otherwise the compressor is run on the decompressor's state    *)
WriteOnReader(c, u, buf, outcome) ==
    LET c1 == IF c.type = COMPRESS_ZSTD THEN c ELSE [c EXCEPT !.inl = buf]
    IN  IF Len(buf) = 0 THEN [c |-> c1, u |-> u, ret |-> 0]
        ELSE IF outcome = "error" THEN [c |-> c1, u |-> u, ret |-> -EIO]
        ELSE [c |-> [c1 EXCEPT !.inl = <<>>],
              u |-> [UnderWrite(u, buf) EXCEPT !.writes = @ + 1],
              ret |-> Len(buf)]

(* the type of s provides op *)
Provides(s, op) == op \in OpsOf(s.kind)

(* what every entry point does when the operation is missing *)
NotSupported(s) == [s |-> [s EXCEPT !.error = ENOSYS], ret |-> -ENOSYS, null |-> FALSE]

(* stream_read / stream_write after the concrete operation answered r *)
Transferred(s, r) ==
    [s |-> IF r < 0 THEN [s EXCEPT !.error = -r]
           ELSE IF r > 0 THEN [s EXCEPT !.pos = @ + r]
           ELSE s,
     ret |-> r, null |-> FALSE]

(* stream_read *)
StreamRead(s, r) ==
    IF ~Provides(s, "read") THEN NotSupported(s) ELSE Transferred(s, r)

(* stream_write *)
StreamWrite(s, r) ==
    IF ~Provides(s, "write") THEN NotSupported(s) ELSE Transferred(s, r)

(* stream_seek *)
StreamSeek(s, r) ==
    IF ~Provides(s, "seek") THEN NotSupported(s)
    ELSE [s |-> IF r < 0 THEN [s EXCEPT !.error = -r] ELSE [s EXCEPT !.pos = r],
          ret |-> r, null |-> FALSE]

(* stream_tell *)
StreamTell(s, r) ==
    IF Provides(s, "tell") THEN [s |-> s, ret |-> r, null |-> FALSE]
    ELSE IF CapTell(s.kind) THEN [s |-> s, ret |-> s.pos, null |-> FALSE]
    ELSE NotSupported(s)

(* stream_size, stream_munmap: the error is kept when the result is        *)
(* negative                                                                *)
Answered(s, r) ==
    [s |-> IF r < 0 THEN [s EXCEPT !.error = -r] ELSE s, ret |-> r, null |-> FALSE]

(* stream_size *)
StreamSize(s, r) ==
    IF ~Provides(s, "size") THEN NotSupported(s) ELSE Answered(s, r)

(* stream_mmap: NULL for a missing operation and for a failed mapping *)
StreamMmap(s, r) ==
    IF ~Provides(s, "mmap")
      THEN [s |-> [s EXCEPT !.error = ENOSYS], ret |-> 0, null |-> TRUE]
    ELSE IF r < 0 THEN [s |-> [s EXCEPT !.error = -r], ret |-> 0, null |-> TRUE]
    ELSE [s |-> s, ret |-> 0, null |-> FALSE]

(* stream_munmap *)
StreamMunmap(s, r) ==
    IF ~Provides(s, "munmap") THEN NotSupported(s) ELSE Answered(s, r)

(* stream_flush: "No-op if not supported" *)
StreamFlush(s, r) ==
    IF ~Provides(s, "flush") THEN [s |-> s, ret |-> 0, null |-> FALSE]
    ELSE Answered(s, r)

GCallNone ==
    [op |-> "none", ret |-> 0, null |-> FALSE, crashed |-> FALSE,
     missing |-> FALSE, type |-> COMPRESS_NONE, mode |-> O_RDONLY,
     s |-> [kind |-> "none", phase |-> "off", error |-> 0, pos |-> 0,
            c |-> NoCodec],
     u |-> GUnder(<<>>)]

(* the entry point op was called and answered res, leaving the stream     *)
(* under it as u1                                                          *)
GCalled(op, res, u1) ==
    /\ gs' = res.s
    /\ gunder' = u1
    /\ gcall' = [GCallNone EXCEPT !.op = op, !.ret = res.ret, !.null = res.null,
                                  !.missing = ~Provides(gs, op), !.s = gs,
                                  !.u = gunder]
    /\ gcalls' = gcalls + 1
    /\ UNCHANGED gbuild

(* a stream with a table that can take one more call *)
CanApiCall == gs.phase = "ready" /\ HasOpsTable(gs.kind) /\ gcalls < MaxApiCalls

(* stream_read; on a compression stream initialised for writing the        *)
(* concrete operation is ReadOnWriter                                      *)
CallRead ==
    /\ CanApiCall
    /\ IF gs.kind = "compression" /\ gs.c.is_writing
       THEN \E outcome \in CodecOutcomes :
               LET m == ReadOnWriter(gs.c, gunder, outcome)
               IN  GCalled("read", StreamRead([gs EXCEPT !.c = m.c], m.ret), m.u)
       ELSE \E r \in ConcreteResults : GCalled("read", StreamRead(gs, r), gunder)

(* stream_write; on a compression stream initialised for reading the       *)
(* concrete operation is WriteOnReader                                     *)
CallWrite ==
    /\ CanApiCall
    /\ IF gs.kind = "compression" /\ ~gs.c.is_writing
       THEN \E outcome \in CodecOutcomes, buf \in {<<>>, <<1>>} :
               LET m == WriteOnReader(gs.c, gunder, buf, outcome)
               IN  GCalled("write", StreamWrite([gs EXCEPT !.c = m.c], m.ret), m.u)
       ELSE \E r \in ConcreteResults : GCalled("write", StreamWrite(gs, r), gunder)

CallSeek ==
    /\ CanApiCall
    /\ \E r \in ConcreteResults : GCalled("seek", StreamSeek(gs, r), gunder)

CallTell ==
    /\ CanApiCall
    /\ \E r \in ConcreteResults : GCalled("tell", StreamTell(gs, r), gunder)

CallSize ==
    /\ CanApiCall
    /\ \E r \in ConcreteResults : GCalled("size", StreamSize(gs, r), gunder)

CallMmap ==
    /\ CanApiCall
    /\ \E r \in ConcreteResults : GCalled("mmap", StreamMmap(gs, r), gunder)

CallMunmap ==
    /\ CanApiCall
    /\ \E r \in ConcreteResults : GCalled("munmap", StreamMunmap(gs, r), gunder)

CallFlush ==
    /\ CanApiCall
    /\ \E r \in ConcreteResults : GCalled("flush", StreamFlush(gs, r), gunder)

(* an entry point called on a stream whose ops pointer is NULL reads       *)
(* through that pointer: the call crashes, or returns anything             *)
CallNoTable ==
    /\ gs.phase = "ready"
    /\ ~HasOpsTable(gs.kind)
    /\ gcalls < MaxApiCalls
    /\ \E op \in StreamOps, crashed \in BOOLEAN, r \in ConcreteResults \cup {-ENOSYS} :
          /\ gcall' = [GCallNone EXCEPT !.op = op, !.ret = r, !.crashed = crashed,
                                        !.missing = TRUE, !.s = gs, !.u = gunder]
          /\ gs' = IF crashed THEN [gs EXCEPT !.phase = "failed"] ELSE gs
    /\ gcalls' = gcalls + 1
    /\ UNCHANGED << gbuild, gunder >>

(* compression_stream_init(&cs, &under, type, mode, owns) *)
CallInit ==
    /\ gs.phase = "new"
    /\ \E type \in CompressionTypes \cup {COMPRESS_NONE}, mode \in AccModes,
          owns \in BOOLEAN :
          LET r == CompressionStreamInitCall(gbuild, gunder, type, mode, owns)
          IN  /\ gs' = [gs EXCEPT !.phase = IF r.ret = 0 THEN "ready" ELSE "failed",
                                  !.c = r.c]
              /\ gunder' = r.u
              /\ gcall' = [GCallNone EXCEPT !.op = "init", !.ret = r.ret,
                                            !.type = type, !.mode = mode,
                                            !.s = gs, !.u = gunder]
    /\ UNCHANGED << gbuild, gcalls >>

(* a stream of one of the library's types; a compression stream is still   *)
(* to be initialised over a stream that holds nothing or two bytes         *)
GInit ==
    /\ gbuild \in Builds
    /\ \E kind \in StreamKinds :
          gs = [kind |-> kind,
                phase |-> IF kind = "compression" THEN "new" ELSE "ready",
                error |-> 0, pos |-> 0, c |-> NoCodec]
    /\ \E data \in {<<>>, <<1, 0>>} : gunder = GUnder(data)
    /\ gcall = GCallNone
    /\ gcalls = 0

(* no stream is called *)
GIdle ==
    /\ gbuild = [bzip2 |-> TRUE, lzma |-> TRUE, zstd |-> TRUE]
    /\ gs = GCallNone.s
    /\ gunder = GUnder(<<>>)
    /\ gcall = GCallNone
    /\ gcalls = 0

GNext ==
    \/ CallInit /\ UNCHANGED notApi
    \/ CallRead /\ UNCHANGED notApi
    \/ CallWrite /\ UNCHANGED notApi
    \/ CallSeek /\ UNCHANGED notApi
    \/ CallTell /\ UNCHANGED notApi
    \/ CallSize /\ UNCHANGED notApi
    \/ CallMmap /\ UNCHANGED notApi
    \/ CallMunmap /\ UNCHANGED notApi
    \/ CallFlush /\ UNCHANGED notApi
    \/ CallNoTable /\ UNCHANGED notApi

(***************************************************************************)
(*            stream.c: stream_write_string and stream_read_string         *)
(***************************************************************************)
(* the number of values of a uint16_t *)
U16 == 65536

ENOSPC == 28

(* how far past 65535 the longest string goes *)
MaxOver == 2

RECURSIVE RLen(_)
(* number of bytes of a run-length encoded string *)
RLen(r) == IF r = <<>> THEN 0 ELSE Head(r).n + RLen(Tail(r))

RECURSIVE RTake(_, _)
(* its first k bytes *)
RTake(r, k) ==
    IF k <= 0 \/ r = <<>> THEN <<>>
    ELSE IF Head(r).n <= k THEN << Head(r) >> \o RTake(Tail(r), k - Head(r).n)
    ELSE << [b |-> Head(r).b, n |-> k] >>

RECURSIVE RDrop(_, _)
(* what follows its first k bytes *)
RDrop(r, k) ==
    IF k <= 0 \/ r = <<>> THEN r
    ELSE IF Head(r).n <= k THEN RDrop(Tail(r), k - Head(r).n)
    ELSE << [b |-> Head(r).b, n |-> Head(r).n - k] >> \o Tail(r)

(* concatenation *)
RCat(x, y) ==
    IF x = <<>> THEN y
    ELSE IF y = <<>> THEN x
    ELSE IF x[Len(x)].b = y[1].b
      THEN SubSeq(x, 1, Len(x) - 1)
              \o << [b |-> y[1].b, n |-> x[Len(x)].n + y[1].n] >> \o Tail(y)
    ELSE x \o y

(* the byte at offset i (from 0) *)
RByte(r, i) == RTake(RDrop(r, i), 1)[1].b

(* strlen(str) *)
Strlen(str) == RLen(str)

(* the conversion of a size_t to uint16_t *)
ToU16(v) == v % U16

(* mem_stream_write_impl: all of buf or an error *)
MemWrite(m, buf) ==
    IF m.pos + RLen(buf) > m.capacity /\ ~m.can_grow
    THEN [m |-> m, ret |-> -ENOSPC]
    ELSE [m |-> [m EXCEPT !.data = RCat(RTake(m.data, m.pos), buf),
                          !.pos = m.pos + RLen(buf)],
          ret |-> RLen(buf)]

(* mem_stream_read_impl *)
MemRead(m, count) ==
    LET chunk == RTake(RDrop(m.data, m.pos), count)
    IN  [m |-> [m EXCEPT !.pos = m.pos + RLen(chunk)], chunk |-> chunk]

(* stream_write_u16_le *)
StreamWriteU16Le(m, value) ==
    LET w == MemWrite(m, RCat(<< [b |-> value % 256, n |-> 1] >>,
                              << [b |-> (value \div 256) % 256, n |-> 1] >>))
    IN  [m |-> w.m, ret |-> IF w.ret = 2 THEN 0 ELSE -1]

(* stream_read_u16_le *)
StreamReadU16Le(m) ==
    LET rd == MemRead(m, 2)
    IN  IF RLen(rd.chunk) # 2 THEN [m |-> rd.m, ret |-> -1, value |-> 0]
        ELSE [m |-> rd.m, ret |-> 0,
              value |-> RByte(rd.chunk, 0) + 256 * RByte(rd.chunk, 1)]

(* stream_write_string *)
StreamWriteString(m, str) ==
    LET len == ToU16(Strlen(str))
        p == StreamWriteU16Le(m, len)
        w == MemWrite(p.m, RTake(str, len))
    IN  IF p.ret < 0 THEN [m |-> p.m, ret |-> -1]
        ELSE [m |-> w.m, ret |-> IF w.ret = len THEN 0 ELSE -1]

(* stream_read_string: buf is the string left in the caller's buffer *)
StreamReadString(m, buf_size) ==
    LET p == StreamReadU16Le(m)
        rd == MemRead(p.m, p.value)
    IN  IF p.ret < 0 THEN [m |-> p.m, ret |-> -1, buf |-> <<>>]
        ELSE IF p.value >= buf_size THEN [m |-> p.m, ret |-> -1, buf |-> <<>>]
        ELSE IF RLen(rd.chunk) # p.value THEN [m |-> rd.m, ret |-> -1, buf |-> <<>>]
        ELSE [m |-> rd.m, ret |-> 0, buf |-> rd.chunk]

(* the lengths of the strings written *)
StrLens == {0, 1, 2, 255, 256, 257} \cup ((U16 - 1)..(U16 + MaxOver))
              \cup {U16 + 255, U16 + 256, 2 * U16}

(* a string of n bytes: a run of 'A's, the last byte a 'z' *)
StrOf(n) ==
    IF n = 0 THEN <<>>
    ELSE RCat(RTake(<< [b |-> 65, n |-> n] >>, n - 1), << [b |-> 122, n |-> 1] >>)

(* capacities of the memory stream *)
Capacities == {1, 2, 3, 300}

(* sizes of the buffer passed to stream_read_string *)
BufSizes == {1, 2, 300, U16, 3 * U16}

SInit ==
    /\ \E n \in StrLens : sstr = StrOf(n)
    /\ \E c \in Capacities, g \in BOOLEAN :
          smem = [data |-> <<>>, pos |-> 0, capacity |-> c, can_grow |-> g]
    /\ sphase = "init"
    /\ swret = 0
    /\ srret = 0
    /\ sbuf = <<>>
    /\ sbufsize = 0

(* no string is written *)
SIdle ==
    /\ sstr = <<>>
    /\ smem = [data |-> <<>>, pos |-> 0, capacity |-> 1, can_grow |-> FALSE]
    /\ sphase = "off"
    /\ swret = 0
    /\ srret = 0
    /\ sbuf = <<>>
    /\ sbufsize = 0

(* stream_write_string(&ms.base, str) *)
WriteString ==
    /\ sphase = "init"
    /\ LET r == StreamWriteString(smem, sstr)
       IN  /\ smem' = r.m
           /\ swret' = r.ret
    /\ sphase' = "written"
    /\ UNCHANGED << sstr, srret, sbuf, sbufsize >>

(* the stream is rewound and stream_read_string(&ms.base, buf, buf_size)   *)
(* is called                                                               *)
ReadString ==
    /\ sphase = "written"
    /\ \E size \in BufSizes :
          LET r == StreamReadString([smem EXCEPT !.pos = 0], size)
          IN  /\ smem' = r.m
              /\ srret' = r.ret
              /\ sbuf' = r.buf
              /\ sbufsize' = size
    /\ sphase' = "read"
    /\ UNCHANGED << sstr, swret >>

SNext ==
    \/ WriteString /\ UNCHANGED notStr
    \/ ReadString /\ UNCHANGED notStr

(***************************************************************************)
(*                             SPECIFICATIONS                              *)
(***************************************************************************)
vars == << wvars, cvars, avars, awvars, arvars, gvars, svars >>

(* the walker alone *)
WalkInit == WInit /\ CIdle /\ AIdle /\ AWIdle /\ ARIdle /\ GIdle /\ SIdle

Spec == WalkInit /\ [][WNext]_vars

(* the compression decorator alone *)
CompInit == CInit /\ WIdle /\ AIdle /\ AWIdle /\ ARIdle /\ GIdle /\ SIdle

SpecComp == CompInit /\ [][CNext]_vars

(* content detection alone *)
AutoInit == AInit /\ WIdle /\ CIdle /\ AWIdle /\ ARIdle /\ GIdle /\ SIdle

SpecAuto == AutoInit /\ [][ANext]_vars

(* an archive opened for writing alone *)
ArchWInit == AWInit /\ WIdle /\ CIdle /\ AIdle /\ ARIdle /\ GIdle /\ SIdle

SpecArchW == ArchWInit /\ [][AWNext]_vars

(* an archive opened for reading alone *)
ArchRInit == ARInit /\ WIdle /\ CIdle /\ AIdle /\ AWIdle /\ GIdle /\ SIdle

SpecArchR == ArchRInit /\ [][ARNext]_vars

(* the generic entry points alone *)
ApiInit == GInit /\ WIdle /\ CIdle /\ AIdle /\ AWIdle /\ ARIdle /\ SIdle

SpecApi == ApiInit /\ [][GNext]_vars

(* the string helpers alone *)
StrInit == SInit /\ WIdle /\ CIdle /\ AIdle /\ AWIdle /\ ARIdle /\ GIdle

SpecStr == StrInit /\ [][SNext]_vars

(* the two decorators whose close can be called again: a compression       *)
(* stream, or an archive opened for writing                                *)
CloseInit == CompInit \/ ArchWInit

CloseNext ==
    \/ Write /\ UNCHANGED notComp
    \/ CloseStream /\ UNCHANGED notComp
    \/ OpenRead /\ UNCHANGED notComp
    \/ Read /\ UNCHANGED notComp
    \/ Mmap /\ UNCHANGED notComp
    \/ Munmap /\ UNCHANGED notComp
    \/ OpenDamaged /\ UNCHANGED notComp
    \/ NewEntry /\ UNCHANGED notArchW
    \/ WriteData /\ UNCHANGED notArchW
    \/ FinishEntry /\ UNCHANGED notArchW
    \/ CloseArchive /\ UNCHANGED notArchW

SpecClose == CloseInit /\ [][CloseNext]_vars

(***************************************************************************)
(*                   CLAIMS ABOUT THE COMPRESSION STREAM                   *)
(***************************************************************************)

(* C4: what was written through a write-mode stream and closed is what a   *)
(* read-mode stream of the same codec returns, read until the first 0      *)
(* return, for any split into writes and any sequence of read sizes.       *)
C4_RoundTrip ==
    (cphase \in {"reading", "rclosed"} /\ gotEOF) => got = wrote

(* C5: bytes sitting in the output buffer are delivered before a read      *)
(* returns 0: when a read has returned 0, no decompressed byte is left     *)
(* unserved in the buffer, the bytes produced by the refill that saw the   *)
(* end of the frame included.                                              *)
C5_BufferServedBeforeEof ==
    gotEOF => cs.outbuf_pos >= Len(cs.outbuf)

(* C8: stream_mmap over [0, N) of a freshly opened read-mode stream, with  *)
(* 0 < N <= L, returns the first N bytes of the decompressed content.      *)
C8_MmapMatchesRead ==
    (cphase = "mapped" /\ mapStart = 0 /\ nreads = 0) =>
        mapBuf = Take(wrote, mapN)

(* C2: after the close of a compression stream, in write or read mode and  *)
(* after any writes or reads, the underlying stream has been closed        *)
(* exactly once if owns_underlying was true and not at all if it was false.*)
C2_CloseOwnership ==
    cphase \in {"wclosed", "rclosed"} =>
        under.closes = (IF cs.owns_underlying THEN 1 ELSE 0)

(* an owning read-mode stream has been closed after reads *)
C2_Witness ==
    /\ cphase = "rclosed"
    /\ cs.owns_underlying
    /\ nreads > 0
    /\ Len(got) > 0
    /\ under.closes = 1

(* the stream read is the unaltered output of the write-mode stream *)
Undamaged == cphase \notin {"damaged", "dclosed"}

(* C29: on a read-mode stream over the output of a write-mode stream, the  *)
(* read made after all decompressed bytes were delivered returns 0, not a  *)
(* negative error, and once a read has returned 0 every later read         *)
(* returns 0 and delivers nothing.                                         *)
C29_EofIsZeroAndSticky ==
    /\ []((Undamaged /\ gotEOF) => lastRet = 0)
    /\ [][(Undamaged /\ nreads' = nreads + 1 /\ (got = wrote \/ gotEOF)) =>
            (lastRet' = 0 /\ got' = got)]_cvars

(* everything written has been read back, then three reads returned 0 *)
C29_Witness ==
    /\ cphase = "reading"
    /\ Len(wrote) >= 3
    /\ got = wrote
    /\ gotEOF
    /\ lastRet = 0
    /\ nreads >= Len(wrote) + 3

(* C31: a compression stream holds at most one live emulated mapping, the  *)
(* one whose address it stores, and no buffer is freed twice; munmap with  *)
(* an address other than the stored one fails with -EINVAL and leaves the  *)
(* mapping as it was, which covers a second munmap of a released mapping;  *)
(* munmap with the live address releases the mapping; once the stream is   *)
(* closed every buffer mmap allocated has been freed exactly once.         *)
C31_OneLiveMapping ==
    /\ Cardinality(LiveBuffers(mlog)) <= 1
    /\ \A i \in DOMAIN mlog : mlog[i].frees <= 1
    /\ \A i \in LiveBuffers(mlog) : mlog[i].addr = maddr
    /\ maddr # 0 => LiveBuffers(mlog) # {}
    /\ (unmap.op = "munmap" /\ unmap.addr # unmap.before) =>
          (unmap.ret = -EINVAL /\ maddr = unmap.before)
    /\ (unmap.op = "munmap" /\ unmap.addr = unmap.before /\ unmap.before # 0) =>
          (unmap.ret = 0 /\ maddr = 0 /\ LiveBuffers(mlog) = {})
    /\ cphase = "rclosed" =>
          (maddr = 0 /\ \A i \in DOMAIN mlog : mlog[i].frees = 1)

(* a second mmap released the first mapping, and a munmap with another     *)
(* address then failed and left the second mapping live                    *)
C31_Witness ==
    /\ cphase = "mapped"
    /\ Len(mlog) = 2
    /\ mlog[1].frees = 1
    /\ mlog[2].frees = 0
    /\ maddr = mlog[2].addr
    /\ unmap.op = "munmap"
    /\ unmap.addr # 0
    /\ unmap.ret = -EINVAL

(* C34: on a stream that is being read, the compressed bytes read from the *)
(* underlying stream so far are exactly the bytes the codec has consumed,  *)
(* in order, followed by the input kept for the next pass: no byte is      *)
(* dropped, repeated or overwritten by a fresh read.                       *)
C34_InputHandedOnce ==
    cphase \in {"reading", "mapped"} =>
        fed \o cs.inl = Take(under.data, under.pos)

(* C33: once a read on a read-mode compression stream has returned -EIO    *)
(* because the codec rejected its input, no later read on the stream       *)
(* returns a positive byte count.                                          *)
C33_ErrorEndsReadPath ==
    (cphase = "damaged" /\ gotErr) => lastRet <= 0

(* C32: when a write-mode compression stream is closed and a write of the  *)
(* codec's trailing output to the underlying stream fails, close returns   *)
(* a negative error, the codec state is released and the underlying        *)
(* stream is closed if it is owned.                                        *)
C32_CloseReportsWriteFailure ==
    (cphase = "wclosed" /\ wfailed) =>
        /\ closeRet < 0
        /\ ~cs.codec_state
        /\ under.closes = (IF cs.owns_underlying THEN 1 ELSE 0)

(* C30: the emulated mmap honours the requested range: for any start >= 0  *)
(* and length > 0 with start + length inside the decompressed content, and *)
(* whatever was read before, the buffer returned holds the decompressed    *)
(* bytes at [start, start + length).                                       *)
C30_MmapHonoursRange ==
    cphase = "mapped" =>
        mapBuf = SubSeq(wrote, mapStart + 1, mapStart + mapN)

(***************************************************************************)
(*                     CLAIMS ABOUT CONTENT DETECTION                      *)
(***************************************************************************)

(* C6: after compression_stream_auto on a seekable stream positioned at p, *)
(* the stream is at p again, when a signature was recognised and when the  *)
(* result is not-compressed.                                               *)
C6_PositionRestored ==
    (aphase = "done" /\ afun = "auto" /\ asrc.seekable /\ aret \in {0, -EINVAL})
        => asrc.pos = apos0

(* what the call made of the source: a codec, "none" (not compressed) or   *)
(* "error"                                                                 *)
Classification ==
    IF afun = "auto"
      THEN IF aret = 0 THEN atype
           ELSE IF aret = -EINVAL THEN COMPRESS_NONE ELSE "error"
    ELSE IF aout = "cs" THEN atype ELSE COMPRESS_NONE

(* the magic-byte table *)
SigClass(s) ==
    IF StartsWith(s, SigGzip) THEN COMPRESS_GZIP
    ELSE IF StartsWith(s, SigBzip2) THEN COMPRESS_BZIP2
    ELSE IF StartsWith(s, SigXz) THEN COMPRESS_XZ
    ELSE IF StartsWith(s, SigZstd) THEN COMPRESS_ZSTD
    ELSE COMPRESS_NONE

(* a detection has been made, compression_stream_auto on a seekable stream *)
Detected == aphase = "done" /\ (afun = "auto" => asrc.seekable) /\ ~afail

C14_EntryProtocol ==
    wcall.op \in {"new_entry", "write_data", "finish_entry"} =>
      /\ ar.entry_open =
            (IF wcall.op = "new_entry" /\ wcall.ret = 0 THEN TRUE
             ELSE IF wcall.op = "finish_entry" /\ wcall.ret = 0 THEN FALSE
             ELSE wcall.open)
      /\ (wcall.op = "new_entry" /\ wcall.open) =>
            /\ wcall.ret = -EBUSY
            /\ sink.data = wcall.data
            /\ lib.buf = wcall.buf
      /\ (wcall.op \in {"write_data", "finish_entry"} /\ ~wcall.open) =>
            /\ wcall.ret = -EINVAL
            /\ sink.data = wcall.data
            /\ lib.buf = wcall.buf

(* new_entry was refused with -EBUSY after output had been produced *)
C14_Witness ==
    /\ wcall.op = "new_entry"
    /\ wcall.open
    /\ wcall.ret = -EBUSY
    /\ ar.entry_open
    /\ Len(sink.data) > 0

(* a finished container: complete entries (header, data, padding) followed *)
(* by the footer, which is the last thing written                          *)
Finalized(d) ==
    /\ Len(d) > 0
    /\ d[Len(d)] = SymFooter
    /\ \A i \in DOMAIN d :
          /\ d[i] = SymFooter => i = Len(d)
          /\ (d[i] \in {SymEntryHeader, SymFooter} /\ i > 1) => d[i - 1] = SymEntryPad
          /\ d[i] \in {SymEntryData, SymEntryPad} =>
                (i > 1 /\ d[i - 1] \in {SymEntryHeader, SymEntryData})

(* C15: nothing is ever written to the underlying stream after its close;  *)
(* the underlying stream is not closed while the archive is open; once     *)
(* the archive is closed the underlying stream holds complete entries      *)
(* followed by the footer, and has been closed once if the archive owns    *)
(* it and not at all otherwise.                                            *)
C15_CloseOrder ==
    ar.is_writing =>
      /\ sink.late = 0
      /\ ar.archive => sink.closes = 0
      /\ ~ar.archive =>
            /\ Finalized(sink.data)
            /\ lib.buf = <<>>
            /\ sink.closes = (IF ar.owns_underlying THEN 1 ELSE 0)

(* an owning archive was closed with an entry still open *)
C15_Witness ==
    /\ ar.is_writing
    /\ ~ar.archive
    /\ ar.owns_underlying
    /\ wcall.op = "close"
    /\ wcall.open
    /\ sink.closes = 1
    /\ Len(sink.data) >= 3
    /\ sink.data[Len(sink.data) - 1] = SymEntryPad

(***************************************************************************)
(*                 CLAIMS ABOUT AN ARCHIVE OPENED FOR READING              *)
(***************************************************************************)
IsCallback(x) == x.e = "callback"

(* the callbacks archive_stream_walk has made so far *)
Callbacks == SelectSeq(awalk.trace, IsCallback)

(* C16: archive_stream_walk calls the callback once for each entry, in     *)
(* the order of the container; a callback that returns v # 0 is the last   *)
(* event of the walk, which returns v; a callback that returns 0 is        *)
(* followed by the skip of the entry's data before the next header is      *)
(* read; the walk returns 0 when the headers end with the end of the       *)
(* archive and -EIO when they end with anything else.                      *)
C16_ArchiveStreamWalk ==
    awalk.pc # "off" =>
      LET t == awalk.trace
          cb == Callbacks
      IN  /\ \A i \in DOMAIN cb : cb[i].i = i
          /\ Len(cb) = (IF awalk.pc = "callback" THEN rlib.pos - 1 ELSE rlib.pos)
          /\ \A j \in DOMAIN t :
                /\ (t[j].e = "callback" /\ t[j].v # 0) =>
                      /\ j = Len(t)
                      /\ awalk.pc = "done"
                      /\ awalk.ret = t[j].v
                /\ (t[j].e = "callback" /\ t[j].v = 0) =>
                      /\ j < Len(t)
                      /\ t[j + 1] = Event("skip", t[j].i, 0)
                /\ (t[j].e = "header" /\ j > 1) => t[j - 1].e = "skip"
          /\ awalk.pc = "header" => rlib.left = 0
          /\ (awalk.pc = "done" /\ (t = <<>> \/ ~IsCallback(t[Len(t)]))) =>
                /\ rlib.hdr \in {"eof", "error"}
                /\ awalk.ret = (IF rlib.hdr = "eof" THEN 0 ELSE -EIO)

(* the second callback stopped the walk with a positive value *)
C16_Witness ==
    /\ awalk.pc = "done"
    /\ Len(Callbacks) = 2
    /\ Callbacks[1].v = 0
    /\ Callbacks[2].v = 1
    /\ awalk.ret = 1

(* C17: a per-entry stream never delivers more bytes than the declared     *)
(* size of its entry; a read made once that many bytes were delivered, or  *)
(* once the library reported the end of the entry's data, returns 0; a     *)
(* close of the stream leaves the archive open and untouched.              *)
C17_EntryStream ==
    aes.live \in {"open", "closed"} =>
      /\ aes.delivered <= aes.entry_size
      /\ aes.delivered = aes.bytes_read
      /\ (ecall.op = "read" /\ (ecall.delivered = aes.entry_size \/ ecall.eof)) =>
            ecall.ret = 0
      /\ ecall.op = "close" => (rlib.open /\ rlib = ecall.lib)

(* the second entry's stream, opened after the close of the first, was     *)
(* read once more after it had delivered its declared size, while the      *)
(* library held more                                                       *)
C17_Witness ==
    /\ aes.live = "open"
    /\ rlib.pos = 2
    /\ ecall.op = "read"
    /\ aes.entry_size > 0
    /\ ecall.delivered = aes.entry_size
    /\ ecall.ret = 0
    /\ rlib.left > 0

(***************************************************************************)
(*     CLAIMS ABOUT THE GENERIC ENTRY POINTS AND compression_stream_init   *)
(***************************************************************************)
(* the build leaves out the codec of type *)
NotCompiledIn(type) ==
    \/ type = COMPRESS_BZIP2 /\ ~gbuild.bzip2
    \/ type = COMPRESS_XZ /\ ~gbuild.lzma
    \/ type = COMPRESS_ZSTD /\ ~gbuild.zstd

(* C18: compression_stream_init returns -ENOSYS for a codec that is not    *)
(* compiled in, and -EINVAL for a codec that is compiled in when the       *)
(* access mode is O_RDWR; whenever it fails, the underlying stream has     *)
(* been neither read, written, sought nor closed.                          *)
C18_InitFailures ==
    gcall.op = "init" =>
      /\ NotCompiledIn(gcall.type) => gcall.ret = -ENOSYS
      /\ (~NotCompiledIn(gcall.type) /\ gcall.mode = O_RDWR) => gcall.ret = -EINVAL
      /\ gcall.ret < 0 => (gunder = gcall.u /\ gs.phase = "failed")

(* bzip2 is compiled in and the stream was to be opened O_RDWR over a      *)
(* stream that holds data                                                  *)
C18_Witness ==
    /\ gcall.op = "init"
    /\ gcall.type = COMPRESS_BZIP2
    /\ gbuild.bzip2
    /\ gcall.mode = O_RDWR
    /\ gcall.ret = -EINVAL
    /\ gunder.data # <<>>

(* C19: an entry point called on a stream whose type does not provide the  *)
(* operation returns -ENOSYS (NULL for mmap), and apart from the error it  *)
(* records the stream and what is under it are as before.                  *)
C19_MissingOperationNotSupported ==
    gcall.missing =>
      /\ ~gcall.crashed
      /\ IF gcall.op = "mmap" THEN gcall.null ELSE gcall.ret = -ENOSYS
      /\ gs = [gcall.s EXCEPT !.error = gs.error]
      /\ gunder = gcall.u

(* the call was made on a compression stream against its direction *)
AgainstDirection ==
    /\ gcall.s.kind = "compression"
    /\ \/ gcall.op = "write" /\ ~gcall.s.c.is_writing
       \/ gcall.op = "read" /\ gcall.s.c.is_writing

(* C20: stream_write on a compression stream initialised for reading and   *)
(* stream_read on one initialised for writing return a negative error and  *)
(* leave the codec state, the buffers and the underlying stream as they    *)
(* were.                                                                   *)
C20_OneDirectional ==
    AgainstDirection =>
      /\ gcall.ret < 0
      /\ gs.c = gcall.s.c
      /\ gunder = gcall.u

(***************************************************************************)
(*                    CLAIMS ABOUT THE STRING HELPERS                      *)
(***************************************************************************)

(* the value of the length prefix at the start of the stream *)
PrefixWritten == RByte(smem.data, 0) + 256 * RByte(smem.data, 1)

(* C39: for every string s for which stream_write_string succeeded, the    *)
(* 16-bit length prefix equals the number of string bytes written after    *)
(* it, and stream_read_string on the written bytes with a buffer larger    *)
(* than s returns s and leaves the stream directly after the string;       *)
(* strings of 65536 bytes and more included.                               *)
C39_StringRoundTrip ==
    /\ (sphase \in {"written", "read"} /\ swret = 0) =>
          /\ PrefixWritten = RLen(smem.data) - 2
    /\ (sphase = "read" /\ swret = 0 /\ sbufsize > Strlen(sstr)) =>
          /\ srret = 0
          /\ sbuf = sstr
          /\ smem.pos = 2 + Strlen(sstr)

(***************************************************************************)
(*            CLAIMS ABOUT A CODEC THAT FAILS TO INITIALISE                *)
(***************************************************************************)

(* C37: when stream_auto_decompress recognises a signature and the codec   *)
(* fails to initialise, the stream it returns delivers the bytes of the    *)
(* source from the position the source had at the call: what has been read *)
(* from it is a prefix of them, and a read returns 0 only when all of them *)
(* were delivered; for sources that can seek and sources that cannot.      *)
C37_InitFailureKeepsBytes ==
    (aphase = "done" /\ afun = "decompress" /\ afail /\ aout # "cs") =>
        /\ Len(adeliv) <= Len(lead)
        /\ adeliv = Take(lead, Len(adeliv))
        /\ alast = 0 => adeliv = lead

(***************************************************************************)
(*                CLAIMS ABOUT archive_stream_open FAILING                 *)
(***************************************************************************)

(* C36: when archive_stream_open fails, the underlying stream is left      *)
(* open even if ownership was requested, and an archive_stream_close made  *)
(* later on the failed structure does not close it either.                 *)
C36_FailedOpenLeavesUnderlying ==
    ropen.ret < 0 =>
        /\ ropen.uclosed = 0
        /\ ropen.underlying
        /\ ~ropen.archive
        /\ ecall.op = "archive_close" => ecall.ret = 0

(* archive_stream_close was called after a failed open that was asked to   *)
(* own the underlying stream                                               *)
C36_Witness ==
    /\ ropen.ret = -EIO
    /\ ropen.owns_underlying
    /\ ropen.nclose >= 1
    /\ ecall.op = "archive_close"
    /\ ropen.uclosed = 0

(***************************************************************************)
(*                      CLAIMS ABOUT A SECOND CLOSE                        *)
(***************************************************************************)

(* C35: stream_close on a compression stream that is already closed, and   *)
(* archive_stream_close on an archive that is already closed, return 0     *)
(* and change nothing: the codec or archive state is not released again    *)
(* and the underlying stream is not closed a second time, owned or not.    *)
C35_SecondCloseNoEffect ==
    [][/\ (~cs.codec_state /\ CloseStream) =>
            (closeRet' = 0 /\ cs' = cs /\ under' = under)
       /\ (ar.is_writing /\ ~ar.archive /\ CloseArchive) =>
            (wcall'.ret = 0 /\ ar' = ar /\ lib' = lib /\ sink' = sink)]_vars

(* an owning write-mode compression stream was closed twice *)
C35_Witness ==
    /\ cphase = "wclosed"
    /\ closeN = 2
    /\ cs.owns_underlying
    /\ ~cs.codec_state
    /\ under.closes = 1
    /\ Len(under.data) > 0
    /\ closeRet = 0

====
